---- MODULE Spec2Model ----
(***************************************************************************)
(* Device.LocalAgent.MTP: the agent MTP table of src/core/device_mtp.c,    *)
(* built with ENABLE_COAP.  The state is the agent_mtps array; every       *)
(* handler the data model calls is one action; the calls a handler makes   *)
(* into the STOMP and CoAP modules are recorded, in order, in `acts`.      *)
(***************************************************************************)
EXTENDS Integers, Sequences, FiniteSets, TLC

\* ---------------------------------------------------------------- constants
MAX_CONTROLLERS == 5
MAX_AGENT_MTPS == MAX_CONTROLLERS
INVALID == -1

\* mtp_protocol_t, in the order of the mtp_protocols table
kMtpProtocol_None == 0
kMtpProtocol_STOMP == 1
kMtpProtocol_CoAP == 2

USP_ERR_OK == "USP_ERR_OK"
USP_ERR_INTERNAL_ERROR == "USP_ERR_INTERNAL_ERROR"
USP_ERR_INVALID_VALUE == "USP_ERR_INVALID_VALUE"
USP_ERR_RESOURCES_EXCEEDED == "USP_ERR_RESOURCES_EXCEEDED"

\* A null char pointer (what USP_SAFE_FREE and memset leave behind)
NULL == "<NULL>"

\* ---------------------------------------------------------------- bounds
\* Instance numbers the data model hands out at run time
MaxInstance == 1
\* Rows of Device.STOMP.Connection.{i} that exist
MaxConn == 2
\* Instances found in the database by DEVICE_MTP_Start
MaxBoot == 6
\* Instance numbers handed out where slots are reused
MaxQueued == 3

Instances == 1..MaxInstance
Connections == 1..MaxConn
Queues == {"", "agent/1"}
Ports == {5683, 5684}
Paths == {"", "usp"}

\* ---------------------------------------------------------------- slots
Slots == 0..(MAX_AGENT_MTPS - 1)

\* The result of a lookup that returns NULL
NoSlot == INVALID

\* agent_mtps after memset(agent_mtps, 0, ...) and instance = INVALID
ZeroedMtp ==
    [instance |-> INVALID, enable |-> FALSE, protocol |-> 0,
     stomp_connection_instance |-> 0, stomp_agent_queue |-> NULL,
     coap_port |-> 0, coap_path |-> NULL]

DEVICE_MTP_Init == [i \in Slots |-> ZeroedMtp]

DestroyAgentMtp(mtp) ==
    [mtp EXCEPT !.instance = INVALID, !.protocol = kMtpProtocol_None,
                !.enable = FALSE, !.stomp_connection_instance = INVALID,
                !.stomp_agent_queue = NULL, !.coap_path = NULL, !.coap_port = 0]

\* Mutation of FindUnusedAgentMtp: the last slot is never offered
FindUnusedAgentMtp_SkipsLast(mtps) ==
    IF \E i \in Slots : i < MAX_AGENT_MTPS - 1 /\ mtps[i].instance = INVALID
    THEN CHOOSE i \in Slots : /\ i < MAX_AGENT_MTPS - 1
                              /\ mtps[i].instance = INVALID
                              /\ \A j \in Slots : j < i => mtps[j].instance # INVALID
    ELSE NoSlot

FindUnusedAgentMtp(mtps) ==
    IF \E i \in Slots : mtps[i].instance = INVALID
    THEN CHOOSE i \in Slots : /\ mtps[i].instance = INVALID
                              /\ \A j \in Slots : j < i => mtps[j].instance # INVALID
    ELSE NoSlot

FindAgentMtpByInstance(mtps, instance) ==
    IF \E i \in Slots : mtps[i].instance = instance
    THEN CHOOSE i \in Slots : /\ mtps[i].instance = instance
                              /\ \A j \in Slots : j < i => mtps[j].instance # instance
    ELSE NoSlot

\* ---------------------------------------------------------------- transports
\* Calls into the STOMP and CoAP modules, as they appear in `acts`
DEVICE_STOMP_ScheduleReconnect(instance) == <<"DEVICE_STOMP_ScheduleReconnect", instance>>
COAP_StartServer(instance, port, path) == <<"COAP_StartServer", instance, port, path>>
COAP_StopServer(instance) == <<"COAP_StopServer", instance>>

\* What COAP_StartServer may return
StartResults == {USP_ERR_OK, USP_ERR_INTERNAL_ERROR}

\* What a handler hands back: the array, its return code, the calls it made
Ret(mtps, err, calls) == [mtps |-> mtps, err |-> err, acts |-> calls]

\* ---------------------------------------------------------------- database reads
\* mtp_protocols: textual representation of each protocol
mtp_protocols ==
    { [value |-> kMtpProtocol_None, name |-> ""],
      [value |-> kMtpProtocol_STOMP, name |-> "STOMP"],
      [value |-> kMtpProtocol_CoAP, name |-> "CoAP"] }

TEXT_UTILS_StringToEnum(value, table) ==
    IF \E e \in table : e.name = value
    THEN (CHOOSE e \in table : e.name = value).value
    ELSE INVALID

\* A read of a database parameter: the read's own result and the stored value
Read(err, val) == [err |-> err, val |-> val]

\* A reference is stored as the path of a Device.STOMP.Connection row, <<>> when empty
EmptyRef == <<>>
RefTo(c) == <<"Device.STOMP.Connection", c>>

\* Resolves a non-empty reference against the rows of Device.STOMP.Connection
DM_ACCESS_ValidateReference(value) ==
    IF value[2] \in Connections
    THEN [err |-> USP_ERR_OK, instance |-> value[2]]
    ELSE [err |-> USP_ERR_INVALID_VALUE, instance |-> INVALID]

DEVICE_MTP_GetStompReference(read) ==
    IF read.err # USP_ERR_OK THEN [err |-> read.err, instance |-> INVALID]
    ELSE IF read.val = EmptyRef THEN [err |-> USP_ERR_OK, instance |-> INVALID]
    ELSE DM_ACCESS_ValidateReference(read.val)

DM_ACCESS_GetEnum(read, table) ==
    IF read.err # USP_ERR_OK THEN [err |-> read.err, val |-> INVALID]
    ELSE IF TEXT_UTILS_StringToEnum(read.val, table) = INVALID
         THEN [err |-> USP_ERR_INVALID_VALUE, val |-> INVALID]
         ELSE [err |-> USP_ERR_OK, val |-> TEXT_UTILS_StringToEnum(read.val, table)]

\* What the database may answer for each parameter of an MTP
BoolReads == {Read(USP_ERR_OK, b) : b \in BOOLEAN} \cup {Read(USP_ERR_INTERNAL_ERROR, FALSE)}
ProtocolReads ==
    {Read(USP_ERR_OK, s) : s \in {"", "STOMP", "CoAP", "MQTT"}}
        \cup {Read(USP_ERR_INTERNAL_ERROR, "")}
RefReads ==
    {Read(USP_ERR_OK, EmptyRef)} \cup {Read(USP_ERR_OK, RefTo(c)) : c \in 1..(MaxConn + 1)}
        \cup {Read(USP_ERR_INTERNAL_ERROR, EmptyRef)}
QueueReads == {Read(USP_ERR_OK, q) : q \in Queues} \cup {Read(USP_ERR_INTERNAL_ERROR, "")}
PortReads == {Read(USP_ERR_OK, p) : p \in Ports} \cup {Read(USP_ERR_INTERNAL_ERROR, 0)}
PathReads == {Read(USP_ERR_OK, p) : p \in Paths} \cup {Read(USP_ERR_INTERNAL_ERROR, "")}

\* The defaults registered for the parameters of Device.LocalAgent.MTP.{i}
DefaultValues ==
    [enable |-> Read(USP_ERR_OK, FALSE), protocol |-> Read(USP_ERR_OK, "STOMP"),
     reference |-> Read(USP_ERR_OK, EmptyRef), destination |-> Read(USP_ERR_OK, ""),
     port |-> Read(USP_ERR_OK, 5683), path |-> Read(USP_ERR_OK, ""),
     start |-> USP_ERR_OK]

\* Where a population stops reading: the first read that fails
EnableFails(pv) == pv.enable.err # USP_ERR_OK
ProtocolFails(pv) == DM_ACCESS_GetEnum(pv.protocol, mtp_protocols).err # USP_ERR_OK
ReferenceFails(pv) == DEVICE_MTP_GetStompReference(pv.reference).err # USP_ERR_OK
DestinationFails(pv) == pv.destination.err # USP_ERR_OK
PortFails(pv) == pv.port.err # USP_ERR_OK
PathFails(pv) == pv.path.err # USP_ERR_OK
ReadsFail(pv) ==
    \/ EnableFails(pv) \/ ProtocolFails(pv) \/ ReferenceFails(pv)
    \/ DestinationFails(pv) \/ PortFails(pv) \/ PathFails(pv)

\* The database contents of one instance, and the answer COAP_StartServer would give.
\* Parameters that are never read (they follow a failed read) are left at their defaults,
\* as is the answer of a server that is never started.
Unread(pv) ==
    /\ EnableFails(pv) => pv.protocol = DefaultValues.protocol
    /\ (EnableFails(pv) \/ ProtocolFails(pv)) => pv.reference = DefaultValues.reference
    /\ (EnableFails(pv) \/ ProtocolFails(pv) \/ ReferenceFails(pv))
          => pv.destination = DefaultValues.destination
    /\ (EnableFails(pv) \/ ProtocolFails(pv) \/ ReferenceFails(pv) \/ DestinationFails(pv))
          => pv.port = DefaultValues.port
    /\ (EnableFails(pv) \/ ProtocolFails(pv) \/ ReferenceFails(pv) \/ DestinationFails(pv)
          \/ PortFails(pv)) => pv.path = DefaultValues.path
    /\ (ReadsFail(pv) \/ ~pv.enable.val \/ pv.protocol.val # "CoAP") => pv.start = USP_ERR_OK

PopulationInputs ==
    { pv \in [enable : BoolReads, protocol : ProtocolReads, reference : RefReads,
              destination : QueueReads, port : PortReads, path : PathReads,
              start : StartResults] : Unread(pv) }

\* ---------------------------------------------------------------- add and delete
ValidateAdd_AgentMtp(mtps) ==
    IF FindUnusedAgentMtp(mtps) = NoSlot
    THEN Ret(mtps, USP_ERR_RESOURCES_EXCEEDED, <<>>)
    ELSE Ret(mtps, USP_ERR_OK, <<>>)

\* The slot as ProcessAgentMtpAdded leaves it at its exit label
SlotAtExit(instance, pv) ==
    LET m0 == [instance |-> instance, enable |-> FALSE, protocol |-> 0,
               stomp_connection_instance |-> INVALID, stomp_agent_queue |-> NULL,
               coap_port |-> 0, coap_path |-> NULL]
        m1 == [m0 EXCEPT !.enable = pv.enable.val]
        m2 == [m1 EXCEPT !.protocol = DM_ACCESS_GetEnum(pv.protocol, mtp_protocols).val]
        m3 == [m2 EXCEPT !.stomp_connection_instance =
                            DEVICE_MTP_GetStompReference(pv.reference).instance]
        m4 == [m3 EXCEPT !.stomp_agent_queue = pv.destination.val]
        m5 == [m4 EXCEPT !.coap_port = pv.port.val]
        m6 == [m5 EXCEPT !.coap_path = pv.path.val]
    IN  IF EnableFails(pv) THEN m0
        ELSE IF ProtocolFails(pv) THEN m1
        ELSE IF ReferenceFails(pv) THEN m3
        ELSE IF DestinationFails(pv) THEN m3
        ELSE IF PortFails(pv) THEN m4
        ELSE IF PathFails(pv) THEN m5
        ELSE m6

\* The error ProcessAgentMtpAdded reaches its exit label with
ErrAtExit(pv) ==
    IF EnableFails(pv) THEN pv.enable.err
    ELSE IF ProtocolFails(pv) THEN DM_ACCESS_GetEnum(pv.protocol, mtp_protocols).err
    ELSE IF ReferenceFails(pv) THEN DEVICE_MTP_GetStompReference(pv.reference).err
    ELSE IF DestinationFails(pv) THEN pv.destination.err
    ELSE IF PortFails(pv) THEN pv.port.err
    ELSE IF PathFails(pv) THEN pv.path.err
    ELSE IF pv.protocol.val = "CoAP" /\ pv.enable.val THEN pv.start
    ELSE USP_ERR_OK

\* Mutation of ProcessAgentMtpAdded: a failed population returns without DestroyAgentMtp
ProcessAgentMtpAdded_NoDestroy(mtps, instance, pv) ==
    LET i == FindUnusedAgentMtp(mtps)
        mtp == SlotAtExit(instance, pv)
    IN  IF i = NoSlot THEN Ret(mtps, USP_ERR_RESOURCES_EXCEEDED, <<>>)
        ELSE Ret([mtps EXCEPT ![i] = mtp], ErrAtExit(pv), <<>>)

\* Mutation of ProcessAgentMtpAdded: the reconnect is decided before DestroyAgentMtp
ProcessAgentMtpAdded_ReconnectFirst(mtps, instance, pv) ==
    LET i == FindUnusedAgentMtp(mtps)
        err == ErrAtExit(pv)
        read == SlotAtExit(instance, pv)
        mtp == IF err # USP_ERR_OK THEN DestroyAgentMtp(read) ELSE read
        start == IF ~ReadsFail(pv) /\ read.protocol = kMtpProtocol_CoAP /\ read.enable
                 THEN <<COAP_StartServer(read.instance, read.coap_port, read.coap_path)>>
                 ELSE <<>>
        reconnect == IF /\ read.enable
                        /\ read.protocol = kMtpProtocol_STOMP
                        /\ read.stomp_connection_instance # INVALID
                     THEN <<DEVICE_STOMP_ScheduleReconnect(read.stomp_connection_instance)>>
                     ELSE <<>>
    IN  IF i = NoSlot THEN Ret(mtps, USP_ERR_RESOURCES_EXCEEDED, <<>>)
        ELSE Ret([mtps EXCEPT ![i] = mtp], err, start \o reconnect)

\* Mutation of ProcessAgentMtpAdded: the CoAP server is started whether the MTP is
\* enabled or not
ProcessAgentMtpAdded_StartsDisabled(mtps, instance, pv) ==
    LET i == FindUnusedAgentMtp(mtps)
        err == ErrAtExit(pv)
        read == SlotAtExit(instance, pv)
        mtp == IF err # USP_ERR_OK THEN DestroyAgentMtp(read) ELSE read
        start == IF ~ReadsFail(pv) /\ read.protocol = kMtpProtocol_CoAP
                 THEN <<COAP_StartServer(read.instance, read.coap_port, read.coap_path)>>
                 ELSE <<>>
        reconnect == IF /\ mtp.enable
                        /\ mtp.protocol = kMtpProtocol_STOMP
                        /\ mtp.stomp_connection_instance # INVALID
                     THEN <<DEVICE_STOMP_ScheduleReconnect(mtp.stomp_connection_instance)>>
                     ELSE <<>>
    IN  IF i = NoSlot THEN Ret(mtps, USP_ERR_RESOURCES_EXCEEDED, <<>>)
        ELSE Ret([mtps EXCEPT ![i] = mtp], err, start \o reconnect)

\* Mutation of ProcessAgentMtpAdded: with no slot free, the last slot is taken over
ProcessAgentMtpAdded_TakesLastSlot(mtps, instance, pv) ==
    LET free == FindUnusedAgentMtp(mtps)
        i == IF free = NoSlot THEN MAX_AGENT_MTPS - 1 ELSE free
        err == ErrAtExit(pv)
        read == SlotAtExit(instance, pv)
        mtp == IF err # USP_ERR_OK THEN DestroyAgentMtp(read) ELSE read
        start == IF ~ReadsFail(pv) /\ read.protocol = kMtpProtocol_CoAP /\ read.enable
                 THEN <<COAP_StartServer(read.instance, read.coap_port, read.coap_path)>>
                 ELSE <<>>
        reconnect == IF /\ mtp.enable
                        /\ mtp.protocol = kMtpProtocol_STOMP
                        /\ mtp.stomp_connection_instance # INVALID
                     THEN <<DEVICE_STOMP_ScheduleReconnect(mtp.stomp_connection_instance)>>
                     ELSE <<>>
    IN  Ret([mtps EXCEPT ![i] = mtp], err, start \o reconnect)

ProcessAgentMtpAdded(mtps, instance, pv) ==
    LET i == FindUnusedAgentMtp(mtps)
        err == ErrAtExit(pv)
        read == SlotAtExit(instance, pv)
        \* exit: DestroyAgentMtp if an error occurred
        mtp == IF err # USP_ERR_OK THEN DestroyAgentMtp(read) ELSE read
        start == IF ~ReadsFail(pv) /\ read.protocol = kMtpProtocol_CoAP /\ read.enable
                 THEN <<COAP_StartServer(read.instance, read.coap_port, read.coap_path)>>
                 ELSE <<>>
        \* the reconnect is decided on the slot as it is after the exit label
        reconnect == IF /\ mtp.enable
                        /\ mtp.protocol = kMtpProtocol_STOMP
                        /\ mtp.stomp_connection_instance # INVALID
                     THEN <<DEVICE_STOMP_ScheduleReconnect(mtp.stomp_connection_instance)>>
                     ELSE <<>>
    IN  IF i = NoSlot THEN Ret(mtps, USP_ERR_RESOURCES_EXCEEDED, <<>>)
        ELSE Ret([mtps EXCEPT ![i] = mtp], err, start \o reconnect)

Notify_AgentMtpAdded(mtps, inst1, pv) == ProcessAgentMtpAdded(mtps, inst1, pv)

\* The protocol teardown of a deleted, enabled MTP
DeleteTeardown(mtp) ==
    IF mtp.protocol = kMtpProtocol_STOMP
    THEN IF mtp.stomp_connection_instance # INVALID
         THEN <<DEVICE_STOMP_ScheduleReconnect(mtp.stomp_connection_instance)>>
         ELSE <<>>
    ELSE IF mtp.protocol = kMtpProtocol_CoAP
    THEN <<COAP_StopServer(mtp.instance)>>
    ELSE <<>>

\* Mutation of Notify_AgentMtpDeleted: an instance that is not found is an error
Notify_AgentMtpDeleted_NotFoundFails(mtps, inst1) ==
    LET i == FindAgentMtpByInstance(mtps, inst1)
    IN  IF i = NoSlot THEN Ret(mtps, USP_ERR_INTERNAL_ERROR, <<>>)
        ELSE IF mtps[i].enable = FALSE THEN Ret(mtps, USP_ERR_OK, <<>>)
        ELSE Ret([mtps EXCEPT ![i] = DestroyAgentMtp(mtps[i])], USP_ERR_OK,
                 DeleteTeardown(mtps[i]))

\* Mutation of Notify_AgentMtpDeleted: the slot is destroyed before the protocol is
\* turned off
Notify_AgentMtpDeleted_DestroysFirst(mtps, inst1) ==
    LET i == FindAgentMtpByInstance(mtps, inst1)
    IN  IF i = NoSlot THEN Ret(mtps, USP_ERR_OK, <<>>)
        ELSE IF mtps[i].enable = FALSE THEN Ret(mtps, USP_ERR_OK, <<>>)
        ELSE Ret([mtps EXCEPT ![i] = DestroyAgentMtp(mtps[i])], USP_ERR_OK,
                 DeleteTeardown(DestroyAgentMtp(mtps[i])))

Notify_AgentMtpDeleted(mtps, inst1) ==
    LET i == FindAgentMtpByInstance(mtps, inst1)
    IN  IF i = NoSlot THEN Ret(mtps, USP_ERR_OK, <<>>)
        \* a disabled MTP returns here, before DestroyAgentMtp
        ELSE IF mtps[i].enable = FALSE THEN Ret(mtps, USP_ERR_OK, <<>>)
        ELSE Ret([mtps EXCEPT ![i] = DestroyAgentMtp(mtps[i])], USP_ERR_OK,
                 DeleteTeardown(mtps[i]))

\* ---------------------------------------------------------------- parameter changes
\* Replaces the slot of inst1 (the handlers assert that it exists)
Store(mtps, inst1, mtp) == [mtps EXCEPT ![FindAgentMtpByInstance(mtps, inst1)] = mtp]

ReconnectIfSet(instance) ==
    IF instance # INVALID THEN <<DEVICE_STOMP_ScheduleReconnect(instance)>> ELSE <<>>

\* Mutation of NotifyChange_AgentMtpEnable: no comparison with the stored value
NotifyChange_AgentMtpEnable_NoCompare(mtps, inst1, val_bool, start) ==
    LET old == mtps[FindAgentMtpByInstance(mtps, inst1)]
        mtp == [old EXCEPT !.enable = val_bool]
    IN  IF mtp.protocol = kMtpProtocol_STOMP
        THEN Ret(Store(mtps, inst1, mtp), USP_ERR_OK,
                 ReconnectIfSet(mtp.stomp_connection_instance))
        ELSE IF mtp.protocol = kMtpProtocol_CoAP
        THEN IF mtp.enable
             THEN Ret(Store(mtps, inst1, mtp), start,
                      <<COAP_StartServer(mtp.instance, mtp.coap_port, mtp.coap_path)>>)
             ELSE Ret(Store(mtps, inst1, mtp), USP_ERR_OK, <<COAP_StopServer(mtp.instance)>>)
        ELSE Ret(Store(mtps, inst1, mtp), USP_ERR_OK, <<>>)

\* Mutation of NotifyChange_AgentMtpEnable: a STOMP MTP that is disabled schedules no
\* reconnect
NotifyChange_AgentMtpEnable_ReconnectOnEnable(mtps, inst1, val_bool, start) ==
    LET old == mtps[FindAgentMtpByInstance(mtps, inst1)]
        mtp == [old EXCEPT !.enable = val_bool]
    IN  IF val_bool = old.enable THEN Ret(mtps, USP_ERR_OK, <<>>)
        ELSE IF mtp.protocol = kMtpProtocol_STOMP
        THEN Ret(Store(mtps, inst1, mtp), USP_ERR_OK,
                 IF mtp.enable THEN ReconnectIfSet(mtp.stomp_connection_instance) ELSE <<>>)
        ELSE IF mtp.protocol = kMtpProtocol_CoAP
        THEN IF mtp.enable
             THEN Ret(Store(mtps, inst1, mtp), start,
                      <<COAP_StartServer(mtp.instance, mtp.coap_port, mtp.coap_path)>>)
             ELSE Ret(Store(mtps, inst1, mtp), USP_ERR_OK, <<COAP_StopServer(mtp.instance)>>)
        ELSE Ret(Store(mtps, inst1, mtp), USP_ERR_OK, <<>>)

NotifyChange_AgentMtpEnable(mtps, inst1, val_bool, start) ==
    LET old == mtps[FindAgentMtpByInstance(mtps, inst1)]
        mtp == [old EXCEPT !.enable = val_bool]
    IN  IF val_bool = old.enable THEN Ret(mtps, USP_ERR_OK, <<>>)
        ELSE IF mtp.protocol = kMtpProtocol_STOMP
        THEN Ret(Store(mtps, inst1, mtp), USP_ERR_OK,
                 ReconnectIfSet(mtp.stomp_connection_instance))
        ELSE IF mtp.protocol = kMtpProtocol_CoAP
        THEN IF mtp.enable
             THEN Ret(Store(mtps, inst1, mtp), start,
                      <<COAP_StartServer(mtp.instance, mtp.coap_port, mtp.coap_path)>>)
             ELSE Ret(Store(mtps, inst1, mtp), USP_ERR_OK, <<COAP_StopServer(mtp.instance)>>)
        ELSE Ret(Store(mtps, inst1, mtp), USP_ERR_OK, <<>>)

\* Mutation of NotifyChange_AgentMtpProtocol: a reconnect only when STOMP is involved
\* as the new protocol
NotifyChange_AgentMtpProtocol_ReconnectOnlyToStomp(mtps, inst1, value, start) ==
    LET old == mtps[FindAgentMtpByInstance(mtps, inst1)]
        old_protocol == old.protocol
        mtp == [old EXCEPT !.protocol = TEXT_UTILS_StringToEnum(value, mtp_protocols)]
    IN  IF mtp.enable = FALSE THEN Ret(Store(mtps, inst1, mtp), USP_ERR_OK, <<>>)
        ELSE IF mtp.protocol = old_protocol THEN Ret(Store(mtps, inst1, mtp), USP_ERR_OK, <<>>)
        ELSE Ret(Store(mtps, inst1, mtp),
                 IF mtp.protocol = kMtpProtocol_CoAP THEN start ELSE USP_ERR_OK,
                 (IF mtp.protocol = kMtpProtocol_STOMP
                  THEN ReconnectIfSet(mtp.stomp_connection_instance) ELSE <<>>)
                   \o (IF old_protocol = kMtpProtocol_CoAP
                       THEN <<COAP_StopServer(mtp.instance)>> ELSE <<>>)
                   \o (IF mtp.protocol = kMtpProtocol_CoAP
                       THEN <<COAP_StartServer(mtp.instance, mtp.coap_port, mtp.coap_path)>>
                       ELSE <<>>))

\* Mutation of NotifyChange_AgentMtpProtocol: the protocol of a disabled MTP is not stored
NotifyChange_AgentMtpProtocol_StoresWhenEnabled(mtps, inst1, value, start) ==
    LET old == mtps[FindAgentMtpByInstance(mtps, inst1)]
        old_protocol == old.protocol
        mtp == [old EXCEPT !.protocol = TEXT_UTILS_StringToEnum(value, mtp_protocols)]
    IN  IF old.enable = FALSE THEN Ret(mtps, USP_ERR_OK, <<>>)
        ELSE IF mtp.protocol = old_protocol THEN Ret(Store(mtps, inst1, mtp), USP_ERR_OK, <<>>)
        ELSE Ret(Store(mtps, inst1, mtp),
                 IF mtp.protocol = kMtpProtocol_CoAP THEN start ELSE USP_ERR_OK,
                 ReconnectIfSet(mtp.stomp_connection_instance)
                   \o (IF old_protocol = kMtpProtocol_CoAP
                       THEN <<COAP_StopServer(mtp.instance)>> ELSE <<>>)
                   \o (IF mtp.protocol = kMtpProtocol_CoAP
                       THEN <<COAP_StartServer(mtp.instance, mtp.coap_port, mtp.coap_path)>>
                       ELSE <<>>))

\* Mutation of NotifyChange_AgentMtpProtocol: the new server is started before the old
\* one is stopped and the connection told to reconnect
NotifyChange_AgentMtpProtocol_StartsFirst(mtps, inst1, value, start) ==
    LET old == mtps[FindAgentMtpByInstance(mtps, inst1)]
        old_protocol == old.protocol
        mtp == [old EXCEPT !.protocol = TEXT_UTILS_StringToEnum(value, mtp_protocols)]
    IN  IF mtp.enable = FALSE THEN Ret(Store(mtps, inst1, mtp), USP_ERR_OK, <<>>)
        ELSE IF mtp.protocol = old_protocol THEN Ret(Store(mtps, inst1, mtp), USP_ERR_OK, <<>>)
        ELSE Ret(Store(mtps, inst1, mtp),
                 IF mtp.protocol = kMtpProtocol_CoAP THEN start ELSE USP_ERR_OK,
                 (IF mtp.protocol = kMtpProtocol_CoAP
                  THEN <<COAP_StartServer(mtp.instance, mtp.coap_port, mtp.coap_path)>>
                  ELSE <<>>)
                   \o (IF old_protocol = kMtpProtocol_CoAP
                       THEN <<COAP_StopServer(mtp.instance)>> ELSE <<>>)
                   \o ReconnectIfSet(mtp.stomp_connection_instance))

NotifyChange_AgentMtpProtocol(mtps, inst1, value, start) ==
    LET old == mtps[FindAgentMtpByInstance(mtps, inst1)]
        old_protocol == old.protocol
        mtp == [old EXCEPT !.protocol = TEXT_UTILS_StringToEnum(value, mtp_protocols)]
    IN  IF mtp.enable = FALSE THEN Ret(Store(mtps, inst1, mtp), USP_ERR_OK, <<>>)
        ELSE IF mtp.protocol = old_protocol THEN Ret(Store(mtps, inst1, mtp), USP_ERR_OK, <<>>)
        ELSE Ret(Store(mtps, inst1, mtp),
                 IF mtp.protocol = kMtpProtocol_CoAP THEN start ELSE USP_ERR_OK,
                 ReconnectIfSet(mtp.stomp_connection_instance)
                   \o (IF old_protocol = kMtpProtocol_CoAP
                       THEN <<COAP_StopServer(mtp.instance)>> ELSE <<>>)
                   \o (IF mtp.protocol = kMtpProtocol_CoAP
                       THEN <<COAP_StartServer(mtp.instance, mtp.coap_port, mtp.coap_path)>>
                       ELSE <<>>))

\* The restart of the CoAP server of an enabled CoAP MTP
RestartServer(inst1, mtp) ==
    IF mtp.protocol = kMtpProtocol_CoAP /\ mtp.enable
    THEN <<COAP_StopServer(inst1),
           COAP_StartServer(mtp.instance, mtp.coap_port, mtp.coap_path)>>
    ELSE <<>>

\* Mutation of NotifyChange_AgentMtpCoAPPort: the port is stored only once the server
\* has restarted
NotifyChange_AgentMtpCoAPPort_StoresAfterStart(mtps, inst1, val_uint, start) ==
    LET old == mtps[FindAgentMtpByInstance(mtps, inst1)]
        mtp == [old EXCEPT !.coap_port = val_uint]
        err == IF RestartServer(inst1, mtp) # <<>> THEN start ELSE USP_ERR_OK
    IN  IF val_uint = old.coap_port THEN Ret(mtps, USP_ERR_OK, <<>>)
        ELSE Ret(IF err = USP_ERR_OK THEN Store(mtps, inst1, mtp) ELSE mtps,
                 err, RestartServer(inst1, mtp))

\* Mutation of NotifyChange_AgentMtpCoAPPort: no comparison with the stored port
NotifyChange_AgentMtpCoAPPort_NoCompare(mtps, inst1, val_uint, start) ==
    LET old == mtps[FindAgentMtpByInstance(mtps, inst1)]
        mtp == [old EXCEPT !.coap_port = val_uint]
    IN  Ret(Store(mtps, inst1, mtp),
            IF RestartServer(inst1, mtp) # <<>> THEN start ELSE USP_ERR_OK,
            RestartServer(inst1, mtp))

NotifyChange_AgentMtpCoAPPort(mtps, inst1, val_uint, start) ==
    LET old == mtps[FindAgentMtpByInstance(mtps, inst1)]
        mtp == [old EXCEPT !.coap_port = val_uint]
    IN  IF val_uint = old.coap_port THEN Ret(mtps, USP_ERR_OK, <<>>)
        ELSE Ret(Store(mtps, inst1, mtp),
                 IF RestartServer(inst1, mtp) # <<>> THEN start ELSE USP_ERR_OK,
                 RestartServer(inst1, mtp))

NotifyChange_AgentMtpCoAPPath(mtps, inst1, value, start) ==
    LET old == mtps[FindAgentMtpByInstance(mtps, inst1)]
        mtp == [old EXCEPT !.coap_path = value]
    IN  Ret(Store(mtps, inst1, mtp),
            IF RestartServer(inst1, mtp) # <<>> THEN start ELSE USP_ERR_OK,
            RestartServer(inst1, mtp))

\* Mutation of NotifyChange_AgentMtpStompReference: only the new connection reconnects
NotifyChange_AgentMtpStompReference_NewOnly(mtps, inst1, read) ==
    LET old == mtps[FindAgentMtpByInstance(mtps, inst1)]
        got == DEVICE_MTP_GetStompReference(read)
        last_connection_instance == old.stomp_connection_instance
        new_connection_instance == got.instance
        mtp == [old EXCEPT !.stomp_connection_instance = new_connection_instance]
    IN  IF got.err # USP_ERR_OK
        THEN Ret(Store(mtps, inst1, [old EXCEPT !.stomp_connection_instance = INVALID]),
                 got.err, <<>>)
        ELSE Ret(Store(mtps, inst1, mtp), got.err,
                 IF /\ mtp.enable = TRUE
                    /\ mtp.protocol = kMtpProtocol_STOMP
                    /\ last_connection_instance # new_connection_instance
                 THEN ReconnectIfSet(new_connection_instance)
                 ELSE <<>>)

\* Mutation of NotifyChange_AgentMtpStompReference: a reference that does not resolve
\* leaves the connection as it was
NotifyChange_AgentMtpStompReference_KeepsOnError(mtps, inst1, read) ==
    LET old == mtps[FindAgentMtpByInstance(mtps, inst1)]
        got == DEVICE_MTP_GetStompReference(read)
        last_connection_instance == old.stomp_connection_instance
        new_connection_instance == got.instance
        mtp == [old EXCEPT !.stomp_connection_instance = new_connection_instance]
    IN  IF got.err # USP_ERR_OK
        THEN Ret(mtps, got.err, <<>>)
        ELSE Ret(Store(mtps, inst1, mtp), got.err,
                 IF /\ mtp.enable = TRUE
                    /\ mtp.protocol = kMtpProtocol_STOMP
                    /\ last_connection_instance # new_connection_instance
                 THEN ReconnectIfSet(last_connection_instance)
                        \o ReconnectIfSet(new_connection_instance)
                 ELSE <<>>)

\* Mutation of NotifyChange_AgentMtpStompReference: the new connection reconnects before
\* the previous one
NotifyChange_AgentMtpStompReference_NewBeforeOld(mtps, inst1, read) ==
    LET old == mtps[FindAgentMtpByInstance(mtps, inst1)]
        got == DEVICE_MTP_GetStompReference(read)
        last_connection_instance == old.stomp_connection_instance
        new_connection_instance == got.instance
        mtp == [old EXCEPT !.stomp_connection_instance = new_connection_instance]
    IN  IF got.err # USP_ERR_OK
        THEN Ret(Store(mtps, inst1, [old EXCEPT !.stomp_connection_instance = INVALID]),
                 got.err, <<>>)
        ELSE Ret(Store(mtps, inst1, mtp), got.err,
                 IF /\ mtp.enable = TRUE
                    /\ mtp.protocol = kMtpProtocol_STOMP
                    /\ last_connection_instance # new_connection_instance
                 THEN ReconnectIfSet(new_connection_instance)
                        \o ReconnectIfSet(last_connection_instance)
                 ELSE <<>>)

\* Mutation of NotifyChange_AgentMtpStompReference: a reference that does not resolve
\* has the previous connection reconnect
NotifyChange_AgentMtpStompReference_ReconnectsOnError(mtps, inst1, read) ==
    LET old == mtps[FindAgentMtpByInstance(mtps, inst1)]
        got == DEVICE_MTP_GetStompReference(read)
        last_connection_instance == old.stomp_connection_instance
        new_connection_instance == got.instance
        mtp == [old EXCEPT !.stomp_connection_instance = new_connection_instance]
    IN  IF got.err # USP_ERR_OK
        THEN Ret(Store(mtps, inst1, [old EXCEPT !.stomp_connection_instance = INVALID]),
                 got.err,
                 IF old.enable = TRUE /\ old.protocol = kMtpProtocol_STOMP
                 THEN ReconnectIfSet(last_connection_instance)
                 ELSE <<>>)
        ELSE Ret(Store(mtps, inst1, mtp), got.err,
                 IF /\ mtp.enable = TRUE
                    /\ mtp.protocol = kMtpProtocol_STOMP
                    /\ last_connection_instance # new_connection_instance
                 THEN ReconnectIfSet(last_connection_instance)
                        \o ReconnectIfSet(new_connection_instance)
                 ELSE <<>>)

NotifyChange_AgentMtpStompReference(mtps, inst1, read) ==
    LET old == mtps[FindAgentMtpByInstance(mtps, inst1)]
        got == DEVICE_MTP_GetStompReference(read)
        last_connection_instance == old.stomp_connection_instance
        new_connection_instance == got.instance
        mtp == [old EXCEPT !.stomp_connection_instance = new_connection_instance]
    IN  IF got.err # USP_ERR_OK
        THEN Ret(Store(mtps, inst1, [old EXCEPT !.stomp_connection_instance = INVALID]),
                 got.err, <<>>)
        ELSE Ret(Store(mtps, inst1, mtp), got.err,
                 IF /\ mtp.enable = TRUE
                    /\ mtp.protocol = kMtpProtocol_STOMP
                    /\ last_connection_instance # new_connection_instance
                 THEN ReconnectIfSet(last_connection_instance)
                        \o ReconnectIfSet(new_connection_instance)
                 ELSE <<>>)

\* Mutation of NotifyChange_AgentMtpStompDestination: the new value is compared with the
\* queue once it has been stored
NotifyChange_AgentMtpStompDestination_ComparesStored(mtps, inst1, value) ==
    LET old == mtps[FindAgentMtpByInstance(mtps, inst1)]
        mtp == [old EXCEPT !.stomp_agent_queue = value]
        schedule_reconnect ==
            /\ mtp.enable = TRUE
            /\ mtp.protocol = kMtpProtocol_STOMP
            /\ mtp.stomp_agent_queue # value
            /\ mtp.stomp_connection_instance # INVALID
    IN  Ret(Store(mtps, inst1, mtp), USP_ERR_OK,
            IF schedule_reconnect
            THEN <<DEVICE_STOMP_ScheduleReconnect(mtp.stomp_connection_instance)>>
            ELSE <<>>)

NotifyChange_AgentMtpStompDestination(mtps, inst1, value) ==
    LET old == mtps[FindAgentMtpByInstance(mtps, inst1)]
        schedule_reconnect ==
            /\ old.enable = TRUE
            /\ old.protocol = kMtpProtocol_STOMP
            /\ old.stomp_agent_queue # value
            /\ old.stomp_connection_instance # INVALID
        mtp == [old EXCEPT !.stomp_agent_queue = value]
    IN  Ret(Store(mtps, inst1, mtp), USP_ERR_OK,
            IF schedule_reconnect
            THEN <<DEVICE_STOMP_ScheduleReconnect(mtp.stomp_connection_instance)>>
            ELSE <<>>)

\* ---------------------------------------------------------------- STOMP connection deleted
\* Writing a reference through the data model: the new value is stored in the database
\* and the parameter's notify handler is called for it
DATA_MODEL_SetParameterValue(mtps, instance, value) ==
    NotifyChange_AgentMtpStompReference(mtps, instance, Read(USP_ERR_OK, value))

\* Mutation of RefersTo: the protocol of the MTP is not looked at
RefersTo_AnyProtocol(mtp, stomp_instance) ==
    /\ mtp.instance # INVALID
    /\ mtp.stomp_connection_instance = stomp_instance

\* Whether DEVICE_MTP_NotifyStompConnDeleted clears the reference of this slot
RefersTo(mtp, stomp_instance) ==
    /\ mtp.instance # INVALID
    /\ mtp.protocol = kMtpProtocol_STOMP
    /\ mtp.stomp_connection_instance = stomp_instance

\* The loop of DEVICE_MTP_NotifyStompConnDeleted from slot i on; r is the result so far
RECURSIVE StompConnDeletedFrom(_, _, _)
StompConnDeletedFrom(i, r, stomp_instance) ==
    IF i = MAX_AGENT_MTPS THEN r
    ELSE IF RefersTo(r.mtps[i], stomp_instance)
    THEN LET set == DATA_MODEL_SetParameterValue(r.mtps, r.mtps[i].instance, EmptyRef)
         IN  StompConnDeletedFrom(i + 1, Ret(set.mtps, r.err, r.acts \o set.acts),
                                  stomp_instance)
    ELSE StompConnDeletedFrom(i + 1, r, stomp_instance)

DEVICE_MTP_NotifyStompConnDeleted(mtps, stomp_instance) ==
    StompConnDeletedFrom(0, Ret(mtps, USP_ERR_OK, <<>>), stomp_instance)

\* ---------------------------------------------------------------- status and queue
\* mtp_status_t, in the order of the mtp_statuses table
kMtpStatus_Error == 0
kMtpStatus_Down == 1
kMtpStatus_Up == 2

\* mtp_statuses: textual representation of each status
mtp_statuses ==
    { [value |-> kMtpStatus_Error, name |-> "Error"],
      [value |-> kMtpStatus_Down, name |-> "Down"],
      [value |-> kMtpStatus_Up, name |-> "Up"] }

TEXT_UTILS_EnumToString(value, table) ==
    IF \E e \in table : e.value = value
    THEN (CHOOSE e \in table : e.value = value).name
    ELSE "UNKNOWN"

\* What a Get_ handler hands back: a handler's result and the value written to buf
Got(mtps, err, calls, buf) == [mtps |-> mtps, err |-> err, acts |-> calls, buf |-> buf]

\* Mutation of Get_MtpStatus: the transport is asked whether the MTP is enabled or not
Get_MtpStatus_IgnoresEnable(mtps, inst1, stomp_status, coap_status) ==
    LET mtp == mtps[FindAgentMtpByInstance(mtps, inst1)]
        status == IF mtp.protocol = kMtpProtocol_STOMP
                  THEN stomp_status[mtp.stomp_connection_instance]
                  ELSE IF mtp.protocol = kMtpProtocol_CoAP
                  THEN coap_status[mtp.instance]
                  ELSE kMtpStatus_Error
    IN  Got(mtps, USP_ERR_OK, <<>>, TEXT_UTILS_EnumToString(status, mtp_statuses))

\* stomp_status[c] is what DEVICE_STOMP_GetMtpStatus(c) answers, coap_status[i] what
\* COAP_GetServerStatus(i) answers
Get_MtpStatus(mtps, inst1, stomp_status, coap_status) ==
    LET mtp == mtps[FindAgentMtpByInstance(mtps, inst1)]
        status == IF mtp.enable
                  THEN IF mtp.protocol = kMtpProtocol_STOMP
                       THEN stomp_status[mtp.stomp_connection_instance]
                       ELSE IF mtp.protocol = kMtpProtocol_CoAP
                       THEN coap_status[mtp.instance]
                       ELSE kMtpStatus_Error
                  ELSE kMtpStatus_Down
    IN  Got(mtps, USP_ERR_OK, <<>>, TEXT_UTILS_EnumToString(status, mtp_statuses))

\* The answers of the STOMP module: one connection at most is up, or all are in error
StompStatuses ==
    { [c \in {INVALID} \cup Connections |->
          IF c = k THEN kMtpStatus_Up ELSE kMtpStatus_Down] : k \in {INVALID} \cup Connections }
        \cup { [c \in {INVALID} \cup Connections |-> kMtpStatus_Error] }

\* The answers of the CoAP module: one server at most is up, or all are in error
CoapStatuses(limit) ==
    { [i \in 1..limit |-> IF i = k THEN kMtpStatus_Up ELSE kMtpStatus_Down] : k \in 0..limit }
        \cup { [i \in 1..limit |-> kMtpStatus_Error] }

\* Whether DEVICE_MTP_GetAgentStompQueue returns the queue of this slot
ListensOn(mtp, instance) ==
    /\ mtp.instance # INVALID
    /\ mtp.enable = TRUE
    /\ mtp.stomp_connection_instance = instance
    /\ mtp.protocol = kMtpProtocol_STOMP
    /\ mtp.stomp_agent_queue # ""

\* Mutation of DEVICE_MTP_GetAgentStompQueue: the matching MTP with the lowest instance
\* number wins
DEVICE_MTP_GetAgentStompQueue_LowestInstance(mtps, instance) ==
    LET found == {i \in Slots : ListensOn(mtps[i], instance)}
    IN  IF found = {} THEN Got(mtps, USP_ERR_OK, <<>>, NULL)
        ELSE Got(mtps, USP_ERR_OK, <<>>,
                 mtps[CHOOSE i \in found :
                        \A j \in found : mtps[i].instance <= mtps[j].instance].stomp_agent_queue)

\* The loop of DEVICE_MTP_GetAgentStompQueue from slot i on
RECURSIVE AgentStompQueueFrom(_, _, _)
AgentStompQueueFrom(i, mtps, instance) ==
    IF i = MAX_AGENT_MTPS THEN NULL
    ELSE IF ListensOn(mtps[i], instance) THEN mtps[i].stomp_agent_queue
    ELSE AgentStompQueueFrom(i + 1, mtps, instance)

DEVICE_MTP_GetAgentStompQueue(mtps, instance) ==
    Got(mtps, USP_ERR_OK, <<>>, AgentStompQueueFrom(0, mtps, instance))

\* ---------------------------------------------------------------- validation
\* Mutation of Validate_AgentMtpProtocol: every value is accepted
Validate_AgentMtpProtocol_AcceptsAll(mtps, value) == Ret(mtps, USP_ERR_OK, <<>>)

Validate_AgentMtpProtocol(mtps, value) ==
    IF TEXT_UTILS_StringToEnum(value, mtp_protocols) = INVALID
    THEN Ret(mtps, USP_ERR_INVALID_VALUE, <<>>)
    ELSE Ret(mtps, USP_ERR_OK, <<>>)

DEVICE_MTP_ValidateStompReference(mtps, value) ==
    IF value = EmptyRef THEN Ret(mtps, USP_ERR_OK, <<>>)
    ELSE Ret(mtps, DM_ACCESS_ValidateReference(value).err, <<>>)

\* ---------------------------------------------------------------- state
VARIABLES
    agent_mtps,     \* the agent_mtps array
    db,             \* instances of Device.LocalAgent.MTP.{i} present in the database
    next_instance,  \* the highest instance number the data model has handed out
    phase,          \* "start" while DEVICE_MTP_Start runs, then "running" or "aborted"
    iv,             \* the instance numbers DEVICE_MTP_Start has still to process
    frame,          \* the handler that has not returned yet and its locals, <<>> if none
    last,           \* the last handler called: its name, instance, argument and result
    acts            \* the calls that handler made into the STOMP and CoAP modules

vars == <<agent_mtps, db, next_instance, phase, iv, frame, last, acts>>

Called(op, inst, arg, err) == [op |-> op, inst |-> inst, arg |-> arg, err |-> err]

\* What a population had resolved when it reached its exit label
Resolved(instance, pv) ==
    [enable |-> SlotAtExit(instance, pv).enable,
     protocol |-> SlotAtExit(instance, pv).protocol,
     stomp_connection_instance |-> SlotAtExit(instance, pv).stomp_connection_instance]

\* The handler's result becomes the new state
Returns(r, op, inst, arg) ==
    /\ agent_mtps' = r.mtps
    /\ acts' = r.acts
    /\ last' = Called(op, inst, arg, r.err)

HasSlot(inst) == FindAgentMtpByInstance(agent_mtps, inst) # NoSlot

\* The data model changes parameters of instances that exist
Settable(inst) == phase = "running" /\ inst \in db /\ HasSlot(inst)

\* An Add request: the data model validates the add of the next instance number
AddValidate(limit) ==
    /\ phase = "running"
    /\ next_instance < limit
    /\ Returns(ValidateAdd_AgentMtp(agent_mtps), "ValidateAdd_AgentMtp",
               next_instance + 1, "")
    /\ UNCHANGED <<db, next_instance, phase, iv, frame>>

\* An Add request to a data model that numbers a new instance one above the highest
\* instance present, so that the number of a deleted instance is handed out again
AddValidateReuse(limit) ==
    /\ phase = "running"
    /\ LET highest == IF db = {} THEN 0 ELSE CHOOSE i \in db : \A j \in db : j <= i
       IN  /\ highest < limit
           /\ Returns(ValidateAdd_AgentMtp(agent_mtps), "ValidateAdd_AgentMtp",
                      highest + 1, "")
    /\ UNCHANGED <<db, next_instance, phase, iv, frame>>

\* ... and, the add validated, creates the instance and notifies the add
AddCommit(inputs) ==
    /\ phase = "running"
    /\ last.op = "ValidateAdd_AgentMtp" /\ last.err = USP_ERR_OK
    /\ \E pv \in inputs :
         LET r == Notify_AgentMtpAdded(agent_mtps, last.inst, pv)
         IN  /\ Returns(r, "Notify_AgentMtpAdded", last.inst, Resolved(last.inst, pv))
             /\ db' = IF r.err = USP_ERR_OK THEN db \cup {last.inst} ELSE db
    /\ next_instance' = last.inst
    /\ UNCHANGED <<phase, iv, frame>>

\* A Delete request, or a repeated notification of one
DeleteInstance ==
    /\ phase = "running"
    /\ \E inst1 \in 1..next_instance :
         /\ Returns(Notify_AgentMtpDeleted(agent_mtps, inst1), "Notify_AgentMtpDeleted",
                    inst1, "")
         /\ db' = db \ {inst1}
    /\ UNCHANGED <<next_instance, phase, iv, frame>>

SetEnable ==
    \E inst1 \in db, val_bool \in BOOLEAN, start \in StartResults :
        /\ Settable(inst1)
        /\ Returns(NotifyChange_AgentMtpEnable(agent_mtps, inst1, val_bool, start),
                   "NotifyChange_AgentMtpEnable", inst1, val_bool)
        /\ UNCHANGED <<db, next_instance, phase, iv, frame>>

\* Protocol values that passed Validate_AgentMtpProtocol
SetProtocol ==
    \E inst1 \in db, value \in {"", "STOMP", "CoAP"}, start \in StartResults :
        /\ Settable(inst1)
        /\ Returns(NotifyChange_AgentMtpProtocol(agent_mtps, inst1, value, start),
                   "NotifyChange_AgentMtpProtocol", inst1, value)
        /\ UNCHANGED <<db, next_instance, phase, iv, frame>>

SetCoAPPort(ports) ==
    \E inst1 \in db, val_uint \in ports, start \in StartResults :
        /\ Settable(inst1)
        /\ Returns(NotifyChange_AgentMtpCoAPPort(agent_mtps, inst1, val_uint, start),
                   "NotifyChange_AgentMtpCoAPPort", inst1, val_uint)
        /\ UNCHANGED <<db, next_instance, phase, iv, frame>>

SetCoAPPath(paths) ==
    \E inst1 \in db, value \in paths, start \in StartResults :
        /\ Settable(inst1)
        /\ Returns(NotifyChange_AgentMtpCoAPPath(agent_mtps, inst1, value, start),
                   "NotifyChange_AgentMtpCoAPPath", inst1, value)
        /\ UNCHANGED <<db, next_instance, phase, iv, frame>>

SetStompReference ==
    \E inst1 \in db, read \in RefReads :
        /\ Settable(inst1)
        /\ Returns(NotifyChange_AgentMtpStompReference(agent_mtps, inst1, read),
                   "NotifyChange_AgentMtpStompReference", inst1, read)
        /\ UNCHANGED <<db, next_instance, phase, iv, frame>>

SetStompDestination ==
    \E inst1 \in db, value \in Queues :
        /\ Settable(inst1)
        /\ Returns(NotifyChange_AgentMtpStompDestination(agent_mtps, inst1, value),
                   "NotifyChange_AgentMtpStompDestination", inst1, value)
        /\ UNCHANGED <<db, next_instance, phase, iv, frame>>

\* A read of Device.LocalAgent.MTP.{i}.Status
GetMtpStatus(limit) ==
    \E inst1 \in db, stomp_status \in StompStatuses, coap_status \in CoapStatuses(limit) :
        /\ Settable(inst1)
        /\ LET r == Get_MtpStatus(agent_mtps, inst1, stomp_status, coap_status)
           IN  Returns(r, "Get_MtpStatus", inst1,
                       [stomp_status |-> stomp_status, coap_status |-> coap_status,
                        buf |-> r.buf])
        /\ UNCHANGED <<db, next_instance, phase, iv, frame>>

\* The STOMP module asks for the agent's queue on one of its connections
GetAgentStompQueue ==
    /\ phase = "running"
    /\ \E instance \in Connections :
         LET r == DEVICE_MTP_GetAgentStompQueue(agent_mtps, instance)
         IN  Returns(r, "DEVICE_MTP_GetAgentStompQueue", INVALID,
                     [instance |-> instance, queue |-> r.buf])
    /\ UNCHANGED <<db, next_instance, phase, iv, frame>>

\* A Set request of Protocol: the data model has the value validated ...
ValidateProtocol ==
    \E inst1 \in db, value \in {"", "STOMP", "CoAP", "MQTT"} :
        /\ Settable(inst1)
        /\ Returns(Validate_AgentMtpProtocol(agent_mtps, value),
                   "Validate_AgentMtpProtocol", inst1, value)
        /\ UNCHANGED <<db, next_instance, phase, iv, frame>>

\* ... and, the value validated, stores it and notifies the change
SetValidatedProtocol ==
    /\ last.op = "Validate_AgentMtpProtocol" /\ last.err = USP_ERR_OK
    /\ Settable(last.inst)
    /\ \E start \in StartResults :
         Returns(NotifyChange_AgentMtpProtocol(agent_mtps, last.inst, last.arg, start),
                 "NotifyChange_AgentMtpProtocol", last.inst, last.arg)
    /\ UNCHANGED <<db, next_instance, phase, iv, frame>>

\* A Set request of STOMP.Reference: the data model has the value validated ...
ValidateStompReference ==
    \E inst1 \in db, value \in {EmptyRef} \cup {RefTo(c) : c \in 1..(MaxConn + 1)} :
        /\ Settable(inst1)
        /\ Returns(DEVICE_MTP_ValidateStompReference(agent_mtps, value),
                   "DEVICE_MTP_ValidateStompReference", inst1, value)
        /\ UNCHANGED <<db, next_instance, phase, iv, frame>>

\* ... and, the value validated, stores it and notifies the change
SetValidatedStompReference ==
    /\ last.op = "DEVICE_MTP_ValidateStompReference" /\ last.err = USP_ERR_OK
    /\ Settable(last.inst)
    /\ Returns(NotifyChange_AgentMtpStompReference(agent_mtps, last.inst,
                                                   Read(USP_ERR_OK, last.arg)),
               "NotifyChange_AgentMtpStompReference", last.inst, Read(USP_ERR_OK, last.arg))
    /\ UNCHANGED <<db, next_instance, phase, iv, frame>>

\* A row of Device.STOMP.Connection is deleted
StompConnDeleted ==
    /\ phase = "running"
    /\ \E stomp_instance \in Connections :
         Returns(DEVICE_MTP_NotifyStompConnDeleted(agent_mtps, stomp_instance),
                 "DEVICE_MTP_NotifyStompConnDeleted", INVALID, stomp_instance)
    /\ UNCHANGED <<db, next_instance, phase, iv, frame>>

\* ---------------------------------------------------------------- start
\* DATA_MODEL_DeleteInstance tells the table's delete handler of the deleted instance
DATA_MODEL_DeleteInstance(mtps, instance) == Notify_AgentMtpDeleted(mtps, instance)

\* What DATA_MODEL_DeleteInstance may return
DeleteResults == {USP_ERR_OK, USP_ERR_INTERNAL_ERROR}

\* Mutation of StartIteration: an instance that cannot be populated is skipped, not deleted
StartIteration_NoSelfHeal(inputs) ==
    /\ phase = "start"
    /\ iv # <<>>
    /\ \E pv \in inputs :
         LET instance == Head(iv)
             r == ProcessAgentMtpAdded(agent_mtps, instance, pv)
         IN  /\ last' = Called("ProcessAgentMtpAdded", instance, Resolved(instance, pv), r.err)
             /\ agent_mtps' = r.mtps
             /\ acts' = r.acts
    /\ iv' = Tail(iv)
    /\ UNCHANGED <<db, phase, next_instance, frame>>

\* One iteration of the loop of DEVICE_MTP_Start over the instances in the database
StartIteration(inputs) ==
    /\ phase = "start"
    /\ iv # <<>>
    /\ \E pv \in inputs, del \in DeleteResults :
         LET instance == Head(iv)
             r == ProcessAgentMtpAdded(agent_mtps, instance, pv)
             d == DATA_MODEL_DeleteInstance(r.mtps, instance)
         IN  /\ last' = Called("ProcessAgentMtpAdded", instance, Resolved(instance, pv), r.err)
             /\ IF r.err = USP_ERR_OK
                THEN /\ agent_mtps' = r.mtps
                     /\ acts' = r.acts
                     /\ UNCHANGED <<db, phase>>
                     /\ iv' = Tail(iv)
                ELSE IF del = USP_ERR_OK
                THEN /\ agent_mtps' = d.mtps
                     /\ acts' = r.acts \o d.acts
                     /\ db' = db \ {instance}
                     /\ iv' = Tail(iv)
                     /\ UNCHANGED phase
                ELSE /\ agent_mtps' = r.mtps
                     /\ acts' = r.acts
                     /\ phase' = "aborted"
                     /\ iv' = <<>>
                     /\ UNCHANGED db
    /\ UNCHANGED <<next_instance, frame>>

\* DEVICE_MTP_Start returns the error of DATA_MODEL_GetInstances before its loop
StartGetInstancesFails ==
    /\ phase = "start"
    /\ last.op = "DEVICE_MTP_Init"
    /\ phase' = "aborted"
    /\ iv' = <<>>
    /\ last' = Called("DEVICE_MTP_Start", INVALID, "", USP_ERR_INTERNAL_ERROR)
    /\ acts' = <<>>
    /\ UNCHANGED <<agent_mtps, db, next_instance, frame>>

\* DEVICE_MTP_Start returns USP_ERR_OK: no instance, or none left to process
StartExit ==
    /\ phase = "start"
    /\ iv = <<>>
    /\ phase' = "running"
    /\ last' = Called("DEVICE_MTP_Start", INVALID, "", USP_ERR_OK)
    /\ acts' = <<>>
    /\ UNCHANGED <<agent_mtps, db, next_instance, iv, frame>>

\* The agent after DEVICE_MTP_Init and a DEVICE_MTP_Start that found no instance
Init ==
    /\ agent_mtps = DEVICE_MTP_Init
    /\ db = {}
    /\ next_instance = 0
    /\ phase = "running"
    /\ iv = <<>>
    /\ last = Called("DEVICE_MTP_Start", INVALID, "", USP_ERR_OK)
    /\ acts = <<>>
    /\ frame = <<>>

\* ---------------------------------------------------------------- handlers, write by write
\* The handlers that write agent_mtps, one write of a field per step, and a caller of
\* DEVICE_MTP_GetAgentStompQueue that runs between any two of them. frame holds the
\* handler under way: where it is, its slot (mtp), its locals and the calls it has made.

\* What the handler under way executes next
At(op, pc) == frame # <<>> /\ frame.op = op /\ frame.pc = pc

\* A write of one field of the handler's slot
Writes(field, val) == agent_mtps' = [agent_mtps EXCEPT ![frame.mtp][field] = val]

\* The handler returns
StepReturns(op, inst, err, calls) ==
    /\ frame' = <<>>
    /\ last' = Called(op, inst, "", err)
    /\ acts' = calls

\* ProcessAgentMtpAdded up to the memset of the slot it found
AddedFindSlot ==
    /\ phase = "running" /\ frame = <<>>
    /\ next_instance < MaxInstance
    /\ LET i == FindUnusedAgentMtp(agent_mtps)
       IN  IF i = NoSlot
           THEN /\ StepReturns("Notify_AgentMtpAdded", next_instance + 1,
                               USP_ERR_RESOURCES_EXCEEDED, <<>>)
                /\ UNCHANGED agent_mtps
           ELSE /\ agent_mtps' = [agent_mtps EXCEPT ![i] =
                                     [instance |-> 0, enable |-> FALSE, protocol |-> 0,
                                      stomp_connection_instance |-> 0,
                                      stomp_agent_queue |-> NULL,
                                      coap_port |-> 0, coap_path |-> NULL]]
                /\ frame' = [op |-> "ProcessAgentMtpAdded", pc |-> "instance", mtp |-> i,
                             instance |-> next_instance + 1, err |-> USP_ERR_OK,
                             acts |-> <<>>]
                /\ UNCHANGED <<last, acts>>
    /\ UNCHANGED <<db, next_instance, phase, iv>>

\* mtp->instance = instance; mtp->stomp_connection_instance = INVALID
AddedSetInstance ==
    /\ At("ProcessAgentMtpAdded", "instance")
    /\ agent_mtps' = [agent_mtps EXCEPT ![frame.mtp].instance = frame.instance,
                                        ![frame.mtp].stomp_connection_instance = INVALID]
    /\ frame' = [frame EXCEPT !.pc = "Enable"]
    /\ UNCHANGED <<db, next_instance, phase, iv, last, acts>>

\* The parameters ProcessAgentMtpAdded reads, in its order, each with the field it is
\* read into and what the read may give
AddedReads ==
    << [pc |-> "Enable", field |-> "enable", reads |-> BoolReads],
       [pc |-> "Protocol", field |-> "protocol",
        reads |-> {DM_ACCESS_GetEnum(read, mtp_protocols) : read \in ProtocolReads}],
       [pc |-> "Reference", field |-> "stomp_connection_instance",
        reads |-> {Read(DEVICE_MTP_GetStompReference(read).err,
                        DEVICE_MTP_GetStompReference(read).instance) : read \in RefReads}],
       [pc |-> "Destination", field |-> "stomp_agent_queue", reads |-> QueueReads],
       [pc |-> "Port", field |-> "coap_port", reads |-> {DefaultValues.port}],
       [pc |-> "Path", field |-> "coap_path", reads |-> {DefaultValues.path}],
       [pc |-> "StartServer"] >>

\* One read: a parameter that fails to be read sends the handler to its exit label
AddedRead ==
    /\ frame # <<>> /\ frame.op = "ProcessAgentMtpAdded"
    /\ \E k \in 1..(Len(AddedReads) - 1) :
         /\ frame.pc = AddedReads[k].pc
         /\ \E read \in AddedReads[k].reads :
              IF read.err # USP_ERR_OK
              THEN /\ frame' = [frame EXCEPT !.pc = "exit", !.err = read.err]
                   /\ IF AddedReads[k].field = "stomp_connection_instance"
                      THEN Writes(AddedReads[k].field, read.val)
                      ELSE UNCHANGED agent_mtps
              ELSE /\ Writes(AddedReads[k].field, read.val)
                   /\ frame' = [frame EXCEPT !.pc = AddedReads[k + 1].pc]
    /\ UNCHANGED <<db, next_instance, phase, iv, last, acts>>

\* The start of the CoAP server of an enabled CoAP MTP
AddedStartServer ==
    /\ At("ProcessAgentMtpAdded", "StartServer")
    /\ LET mtp == agent_mtps[frame.mtp]
       IN  IF mtp.protocol = kMtpProtocol_CoAP /\ mtp.enable
           THEN \E start \in StartResults :
                    frame' = [frame EXCEPT
                                 !.pc = "exit", !.err = start,
                                 !.acts = <<COAP_StartServer(mtp.instance, mtp.coap_port,
                                                             mtp.coap_path)>>]
           ELSE frame' = [frame EXCEPT !.pc = "exit"]
    /\ UNCHANGED <<agent_mtps, db, next_instance, phase, iv, last, acts>>

\* exit: DestroyAgentMtp after an error; then the reconnect, and the return
AddedExit ==
    /\ At("ProcessAgentMtpAdded", "exit")
    /\ IF frame.err # USP_ERR_OK
       THEN /\ frame' = [frame EXCEPT !.pc = "DestroyAgentMtp"]
            /\ UNCHANGED <<db, next_instance, last, acts>>
       ELSE LET mtp == agent_mtps[frame.mtp]
            IN  /\ StepReturns("Notify_AgentMtpAdded", frame.instance, USP_ERR_OK,
                               frame.acts \o
                                 (IF /\ mtp.enable
                                     /\ mtp.protocol = kMtpProtocol_STOMP
                                     /\ mtp.stomp_connection_instance # INVALID
                                  THEN <<DEVICE_STOMP_ScheduleReconnect(
                                             mtp.stomp_connection_instance)>>
                                  ELSE <<>>))
                /\ db' = db \cup {frame.instance}
                /\ next_instance' = frame.instance
    /\ UNCHANGED <<agent_mtps, phase, iv>>

\* Notify_AgentMtpDeleted up to its call of DestroyAgentMtp
DeletedTurnOff ==
    /\ phase = "running" /\ frame = <<>>
    /\ \E inst1 \in 1..next_instance :
         LET i == FindAgentMtpByInstance(agent_mtps, inst1)
         IN  /\ IF i = NoSlot \/ agent_mtps[i].enable = FALSE
                THEN StepReturns("Notify_AgentMtpDeleted", inst1, USP_ERR_OK, <<>>)
                ELSE /\ frame' = [op |-> "Notify_AgentMtpDeleted", pc |-> "DestroyAgentMtp",
                                  mtp |-> i, instance |-> inst1, err |-> USP_ERR_OK,
                                  acts |-> DeleteTeardown(agent_mtps[i])]
                     /\ UNCHANGED <<last, acts>>
             /\ db' = db \ {inst1}
    /\ UNCHANGED <<agent_mtps, next_instance, phase, iv>>

\* DestroyAgentMtp, called by either handler: the writes to the fields in its order
DestroyWrites ==
    << [pc |-> "DestroyAgentMtp", field |-> "instance", val |-> INVALID],
       [pc |-> "protocol", field |-> "protocol", val |-> kMtpProtocol_None],
       [pc |-> "enable", field |-> "enable", val |-> FALSE],
       [pc |-> "stomp_connection_instance", field |-> "stomp_connection_instance",
        val |-> INVALID],
       [pc |-> "stomp_agent_queue", field |-> "stomp_agent_queue", val |-> NULL],
       [pc |-> "coap_path", field |-> "coap_path", val |-> NULL],
       [pc |-> "coap_port", field |-> "coap_port", val |-> 0],
       [pc |-> "return"] >>

DestroyStep ==
    /\ frame # <<>>
    /\ \E k \in 1..(Len(DestroyWrites) - 1) :
         /\ frame.pc = DestroyWrites[k].pc
         /\ Writes(DestroyWrites[k].field, DestroyWrites[k].val)
         /\ frame' = [frame EXCEPT !.pc = DestroyWrites[k + 1].pc]
    /\ UNCHANGED <<db, next_instance, phase, iv, last, acts>>

\* After DestroyAgentMtp: ProcessAgentMtpAdded tests the slot for a reconnect and
\* returns its error, Notify_AgentMtpDeleted returns USP_ERR_OK
DestroyedReturn ==
    /\ frame # <<>> /\ frame.pc = "return"
    /\ LET mtp == agent_mtps[frame.mtp]
       IN  IF frame.op = "ProcessAgentMtpAdded"
           THEN StepReturns("Notify_AgentMtpAdded", frame.instance, frame.err,
                            frame.acts \o
                              (IF /\ mtp.enable
                                  /\ mtp.protocol = kMtpProtocol_STOMP
                                  /\ mtp.stomp_connection_instance # INVALID
                               THEN <<DEVICE_STOMP_ScheduleReconnect(
                                          mtp.stomp_connection_instance)>>
                               ELSE <<>>))
           ELSE StepReturns("Notify_AgentMtpDeleted", frame.instance, USP_ERR_OK,
                            frame.acts)
    /\ next_instance' = IF frame.op = "ProcessAgentMtpAdded" THEN frame.instance
                        ELSE next_instance
    /\ UNCHANGED <<agent_mtps, db, phase, iv>>

\* NotifyChange_AgentMtpStompDestination up to USP_SAFE_FREE(mtp->stomp_agent_queue)
DestinationFree ==
    /\ phase = "running" /\ frame = <<>>
    /\ \E inst1 \in db, value \in Queues :
         LET i == FindAgentMtpByInstance(agent_mtps, inst1)
             mtp == agent_mtps[i]
         IN  /\ i # NoSlot
             /\ frame' = [op |-> "NotifyChange_AgentMtpStompDestination", pc |-> "strdup",
                          mtp |-> i, instance |-> inst1, value |-> value,
                          schedule_reconnect |->
                              /\ mtp.enable = TRUE
                              /\ mtp.protocol = kMtpProtocol_STOMP
                              /\ mtp.stomp_agent_queue # value
                              /\ mtp.stomp_connection_instance # INVALID]
             /\ agent_mtps' = [agent_mtps EXCEPT ![i].stomp_agent_queue = NULL]
    /\ UNCHANGED <<db, next_instance, phase, iv, last, acts>>

\* mtp->stomp_agent_queue = USP_STRDUP(value)
DestinationStore ==
    /\ At("NotifyChange_AgentMtpStompDestination", "strdup")
    /\ Writes("stomp_agent_queue", frame.value)
    /\ frame' = [frame EXCEPT !.pc = "schedule"]
    /\ UNCHANGED <<db, next_instance, phase, iv, last, acts>>

DestinationReturn ==
    /\ At("NotifyChange_AgentMtpStompDestination", "schedule")
    /\ StepReturns("NotifyChange_AgentMtpStompDestination", frame.instance, USP_ERR_OK,
                   IF frame.schedule_reconnect
                   THEN <<DEVICE_STOMP_ScheduleReconnect(
                              agent_mtps[frame.mtp].stomp_connection_instance)>>
                   ELSE <<>>)
    /\ UNCHANGED <<agent_mtps, db, next_instance, phase, iv>>

\* DEVICE_MTP_GetAgentStompQueue reads mtp->stomp_agent_queue[0] of the first slot that
\* passes its other four tests: a null pointer there is dereferenced
SIGSEGV == "SIGSEGV"

DereferencesNull(mtps, instance) ==
    \E i \in Slots :
        /\ mtps[i].instance # INVALID
        /\ mtps[i].enable = TRUE
        /\ mtps[i].stomp_connection_instance = instance
        /\ mtps[i].protocol = kMtpProtocol_STOMP
        /\ mtps[i].stomp_agent_queue = NULL
        /\ \A j \in Slots : j < i => ~ListensOn(mtps[j], instance)

\* What the call may produce: after a null dereference, a fault or any result
AgentStompQueueOutcomes(mtps, instance) ==
    IF DereferencesNull(mtps, instance)
    THEN {Got(mtps, SIGSEGV, <<>>, NULL)}
           \cup {Got(mtps, USP_ERR_OK, <<>>, q) : q \in Queues \cup {NULL}}
    ELSE {DEVICE_MTP_GetAgentStompQueue(mtps, instance)}

\* The STOMP module asks for the agent's queue while a handler may be under way
ReadAgentStompQueue ==
    /\ phase = "running"
    /\ \E instance \in Connections :
         \E r \in AgentStompQueueOutcomes(agent_mtps, instance) :
             last' = Called("DEVICE_MTP_GetAgentStompQueue", INVALID,
                            [instance |-> instance, queue |-> r.buf], r.err)
    /\ UNCHANGED <<agent_mtps, db, next_instance, phase, iv, frame, acts>>

\* ---------------------------------------------------------------- specifications
\* Spec: MTPs added at run time, with every value of Enable, Protocol, STOMP.Reference
\* and STOMP.Destination; CoAP.Port and CoAP.Path keep their registered defaults.
StompInputs ==
    { pv \in PopulationInputs :
        /\ pv.port.err = USP_ERR_OK => pv.port = DefaultValues.port
        /\ pv.path.err = USP_ERR_OK => pv.path = DefaultValues.path }

Next ==
    \/ AddValidate(MaxInstance)
    \/ AddCommit(StompInputs)
    \/ DeleteInstance
    \/ SetEnable
    \/ SetProtocol
    \/ SetStompReference
    \/ SetStompDestination
    \/ StompConnDeleted

Spec == Init /\ [][Next]_vars

\* SpecCoAP: MTPs added at run time, with every value of Enable, Protocol, CoAP.Port
\* and CoAP.Path; STOMP.Reference and STOMP.Destination keep their registered defaults.
CoAPInputs ==
    { pv \in PopulationInputs :
        /\ pv.reference.err = USP_ERR_OK => pv.reference = DefaultValues.reference
        /\ pv.destination.err = USP_ERR_OK => pv.destination = DefaultValues.destination }

NextCoAP ==
    \/ AddValidate(MaxInstance)
    \/ AddCommit(CoAPInputs)
    \/ DeleteInstance
    \/ SetEnable
    \/ SetProtocol
    \/ SetCoAPPort(Ports)
    \/ SetCoAPPath(Paths)

SpecCoAP == Init /\ [][NextCoAP]_vars

\* SpecBoot: the agent starts on a database that holds up to MaxBoot MTPs, more than
\* the array has slots, each with one of a few parameter sets or a parameter that
\* cannot be read; MTPs are then added and STOMP connections deleted.
InitBoot ==
    /\ agent_mtps = DEVICE_MTP_Init
    /\ \E k \in 0..MaxBoot :
         /\ db = 1..k
         /\ iv = [j \in 1..k |-> j]
         /\ next_instance = k
    /\ phase = "start"
    /\ last = Called("DEVICE_MTP_Init", INVALID, "", USP_ERR_OK)
    /\ acts = <<>>
    /\ frame = <<>>

BootValues(enable, protocol) ==
    [DefaultValues EXCEPT !.enable = Read(USP_ERR_OK, enable),
                          !.protocol = Read(USP_ERR_OK, protocol),
                          !.reference = Read(USP_ERR_OK, RefTo(1)),
                          !.destination = Read(USP_ERR_OK, "agent/1")]

BootInputs ==
    { BootValues(FALSE, "STOMP"), BootValues(TRUE, "STOMP"), BootValues(TRUE, "CoAP"),
      [BootValues(TRUE, "STOMP") EXCEPT !.enable = Read(USP_ERR_INTERNAL_ERROR, FALSE)],
      [BootValues(TRUE, "STOMP") EXCEPT !.protocol = Read(USP_ERR_INTERNAL_ERROR, "")],
      [BootValues(TRUE, "STOMP") EXCEPT !.protocol = Read(USP_ERR_OK, "MQTT")],
      [BootValues(TRUE, "STOMP") EXCEPT !.reference = Read(USP_ERR_INTERNAL_ERROR, EmptyRef)],
      [BootValues(TRUE, "STOMP") EXCEPT !.reference = Read(USP_ERR_OK, RefTo(MaxConn + 1))],
      [BootValues(TRUE, "STOMP") EXCEPT !.destination = Read(USP_ERR_INTERNAL_ERROR, "")],
      [BootValues(TRUE, "STOMP") EXCEPT !.port = Read(USP_ERR_INTERNAL_ERROR, 0)],
      [BootValues(TRUE, "STOMP") EXCEPT !.path = Read(USP_ERR_INTERNAL_ERROR, "")],
      [BootValues(TRUE, "CoAP") EXCEPT !.start = USP_ERR_INTERNAL_ERROR] }

NextBoot ==
    \/ StartGetInstancesFails
    \/ StartIteration(BootInputs)
    \/ StartExit
    \/ AddValidate(MaxBoot)
    \/ AddCommit(BootInputs)
    \/ StompConnDeleted

SpecBoot == InitBoot /\ [][NextBoot]_vars

\* SpecStatus: MTPs added with every value of Enable, Protocol and STOMP.Reference that
\* a population accepts, enabled and disabled, and their Status read while the STOMP and
\* CoAP modules report any status.
StatusInputs ==
    { pv \in PopulationInputs :
        /\ ~ReadsFail(pv)
        /\ pv.destination = DefaultValues.destination
        /\ pv.port = DefaultValues.port
        /\ pv.path = DefaultValues.path
        /\ pv.start = USP_ERR_OK }

NextStatus ==
    \/ AddValidate(MaxInstance)
    \/ AddCommit(StatusInputs)
    \/ SetEnable
    \/ GetMtpStatus(MaxInstance)

SpecStatus == Init /\ [][NextStatus]_vars

\* SpecQueue: up to MaxQueued MTPs are added and deleted, so that slots are reused, each
\* one listening on a queue of a connection or failing one of the conditions to do so,
\* and the STOMP module asks for the agent's queue.
QueueValues(enable, protocol, c, queue) ==
    [DefaultValues EXCEPT !.enable = Read(USP_ERR_OK, enable),
                          !.protocol = Read(USP_ERR_OK, protocol),
                          !.reference = Read(USP_ERR_OK, RefTo(c)),
                          !.destination = Read(USP_ERR_OK, queue)]

QueueInputs ==
    { QueueValues(TRUE, "STOMP", 1, "agent/1"), QueueValues(TRUE, "STOMP", 1, "agent/2"),
      QueueValues(FALSE, "STOMP", 1, "agent/1"), QueueValues(TRUE, "CoAP", 1, "agent/1"),
      QueueValues(TRUE, "STOMP", 2, "agent/2"), QueueValues(TRUE, "STOMP", 1, "") }

NextQueue ==
    \/ AddValidate(MaxQueued)
    \/ AddCommit(QueueInputs)
    \/ DeleteInstance
    \/ GetAgentStompQueue

SpecQueue == Init /\ [][NextQueue]_vars

\* SpecReuse: MTPs are added with their default values, or enabled on a connection, and
\* deleted, by a data model that hands out the number of a deleted instance again.
ReuseInputs == {DefaultValues, BootValues(TRUE, "STOMP")}

NextReuse ==
    \/ AddValidateReuse(MaxInstance)
    \/ AddCommit(ReuseInputs)
    \/ DeleteInstance
    \/ SetEnable

SpecReuse == Init /\ [][NextReuse]_vars

\* SpecValidate: the parameters of MTPs added as STOMP or CoAP MTPs are set by requests,
\* each value going through the parameter's validator before its change is notified.
ValidateInputs ==
    { DefaultValues, BootValues(FALSE, "STOMP"), BootValues(TRUE, "STOMP"),
      BootValues(TRUE, "CoAP") }

NextValidate ==
    \/ AddValidate(MaxInstance)
    \/ AddCommit(ValidateInputs)
    \/ SetEnable
    \/ ValidateProtocol
    \/ SetValidatedProtocol
    \/ ValidateStompReference
    \/ SetValidatedStompReference

SpecValidate == Init /\ [][NextValidate]_vars

\* SpecPopulate: MTPs are added with every content of the database, readable or not,
\* and every answer of COAP_StartServer, and deleted.
NextPopulate ==
    \/ AddValidate(MaxInstance)
    \/ AddCommit(PopulationInputs)
    \/ DeleteInstance

SpecPopulate == Init /\ [][NextPopulate]_vars

\* SpecSwitch: MTPs added with every readable value of Enable, Protocol, STOMP.Reference,
\* CoAP.Port and CoAP.Path are enabled, disabled and switched between protocols.
SwitchInputs ==
    { pv \in PopulationInputs :
        /\ ~ReadsFail(pv)
        /\ pv.destination = DefaultValues.destination }

NextSwitch ==
    \/ AddValidate(MaxInstance)
    \/ AddCommit(SwitchInputs)
    \/ SetEnable
    \/ SetProtocol

SpecSwitch == Init /\ [][NextSwitch]_vars

\* SpecDestination: MTPs that listen on a queue of connection 1, or fail one of the
\* conditions to do so, have STOMP.Destination changed.
DestinationInputs ==
    { QueueValues(TRUE, "STOMP", 1, "agent/2"), QueueValues(TRUE, "STOMP", 1, ""),
      QueueValues(FALSE, "STOMP", 1, "agent/2"), QueueValues(TRUE, "CoAP", 1, "agent/2"),
      [QueueValues(TRUE, "STOMP", 1, "agent/2") EXCEPT
          !.reference = Read(USP_ERR_OK, EmptyRef)] }

NextDestination ==
    \/ AddValidate(MaxInstance + 1)
    \/ AddCommit(DestinationInputs)
    \/ SetStompDestination

SpecDestination == Init /\ [][NextDestination]_vars

\* SpecSteps: MTPs are added, have STOMP.Destination changed and are deleted, each
\* handler writing one field at a time, while the STOMP module asks for the agent's
\* queue at any moment. CoAP.Port and CoAP.Path are read with their defaults.
NextSteps ==
    \/ AddedFindSlot
    \/ AddedSetInstance
    \/ AddedRead
    \/ AddedStartServer
    \/ AddedExit
    \/ DeletedTurnOff
    \/ DestroyStep
    \/ DestroyedReturn
    \/ DestinationFree
    \/ DestinationStore
    \/ DestinationReturn
    \/ ReadAgentStompQueue

SpecSteps == Init /\ [][NextSteps]_vars

\* SpecServer: CoAP MTPs, enabled or not, are added, enabled, disabled, switched to STOMP
\* and back, given another port and deleted, by a data model that hands out the
\* number of a deleted instance again. COAP_StartServer never fails.
ServerInputs ==
    { [DefaultValues EXCEPT !.enable = Read(USP_ERR_OK, enable),
                            !.protocol = Read(USP_ERR_OK, "CoAP")] : enable \in BOOLEAN }

SetEnableStarted == SetEnable /\ last'.err = USP_ERR_OK

SetProtocolStarted == SetProtocol /\ last'.err = USP_ERR_OK

SetCoAPPortStarted == SetCoAPPort(Ports) /\ last'.err = USP_ERR_OK

NextServer ==
    \/ AddValidateReuse(MaxInstance)
    \/ AddCommit(ServerInputs)
    \/ DeleteInstance
    \/ SetEnableStarted
    \/ SetProtocolStarted
    \/ SetCoAPPortStarted

SpecServer == Init /\ [][NextServer]_vars

\* ---------------------------------------------------------------- properties
NonFree(mtps) == {s \in Slots : mtps[s].instance # INVALID}
Populated(op) == op \in {"Notify_AgentMtpAdded", "ProcessAgentMtpAdded"}
Reconnects(calls) ==
    {j \in 1..Len(calls) : calls[j][1] = "DEVICE_STOMP_ScheduleReconnect"}

C2_PopulateDeleteRoundTrip ==
    [][ ( /\ Populated(last.op) /\ last.err = USP_ERR_OK
          /\ last'.op = "Notify_AgentMtpDeleted" /\ last'.inst = last.inst )
        => LET s == FindAgentMtpByInstance(agent_mtps, last.inst)
           IN  /\ agent_mtps'[s].instance = INVALID
               /\ agent_mtps'[s].stomp_agent_queue = NULL
               /\ agent_mtps'[s].coap_path = NULL
               /\ \A t \in Slots \ {s} : agent_mtps'[t] = agent_mtps[t] ]_vars

\* C3: ValidateAdd_AgentMtp returns USP_ERR_RESOURCES_EXCEEDED exactly when all
\* MAX_AGENT_MTPS slots are in use and USP_ERR_OK otherwise; it leaves the array as it
\* was, every MTP still found by its instance, and calls no transport.
C3_ValidateAddCapacity ==
    [][ last'.op = "ValidateAdd_AgentMtp"
        => /\ last'.err = IF NonFree(agent_mtps) = Slots
                          THEN USP_ERR_RESOURCES_EXCEEDED ELSE USP_ERR_OK
           /\ agent_mtps' = agent_mtps
           /\ \A s \in NonFree(agent_mtps) :
                FindAgentMtpByInstance(agent_mtps', agent_mtps[s].instance) = s
           /\ acts' = <<>> ]_vars

C3_Witness ==
    /\ last.op = "ValidateAdd_AgentMtp"
    /\ last.err = USP_ERR_RESOURCES_EXCEEDED
    /\ NonFree(agent_mtps) = Slots
    /\ Cardinality({agent_mtps[s].instance : s \in Slots}) = MAX_AGENT_MTPS

\* C4: Notify_AgentMtpDeleted(i) called a second time in a row, or for an instance that
\* has no slot, returns USP_ERR_OK, changes no slot and calls no transport.
C4_DeleteAgainIsNoOp ==
    [][ ( /\ last'.op = "Notify_AgentMtpDeleted"
          /\ \/ last.op = "Notify_AgentMtpDeleted" /\ last.inst = last'.inst
             \/ FindAgentMtpByInstance(agent_mtps, last'.inst) = NoSlot )
        => /\ last'.err = USP_ERR_OK
           /\ agent_mtps' = agent_mtps
           /\ acts' = <<>> ]_vars

C4_Witness ==
    /\ last.op = "Notify_AgentMtpDeleted"
    /\ last.err = USP_ERR_OK
    /\ last.inst \in 1..next_instance
    /\ FindAgentMtpByInstance(agent_mtps, last.inst) = NoSlot
    /\ \E s \in Slots : agent_mtps[s] = DestroyAgentMtp(ZeroedMtp)
    /\ acts = <<>>

\* C5: a population that fails (a parameter cannot be read, the CoAP server does not
\* start, or no slot is free) leaves no slot carrying the instance, as many slots in use
\* as before, and every slot that was in use unchanged.
C5_FailedPopulationLeavesNoSlot ==
    [][ (Populated(last'.op) /\ last'.err # USP_ERR_OK)
        => /\ \A s \in Slots : agent_mtps'[s].instance # last'.inst
           /\ NonFree(agent_mtps') = NonFree(agent_mtps)
           /\ \A s \in NonFree(agent_mtps) : agent_mtps'[s] = agent_mtps[s] ]_vars

C5_Witness ==
    /\ last.op = "ProcessAgentMtpAdded"
    /\ last.err = USP_ERR_RESOURCES_EXCEEDED
    /\ NonFree(agent_mtps) = Slots
    /\ \A s \in Slots : agent_mtps[s].instance # last.inst

\* C6 as claimed: a population that had resolved Enable=true, Protocol=STOMP and a
\* connection c when a later step failed still schedules a reconnect of c.
C6_ReconnectAfterFailedPopulation ==
    ( /\ Populated(last.op) /\ last.err # USP_ERR_OK
      /\ last.arg.enable
      /\ last.arg.protocol = kMtpProtocol_STOMP
      /\ last.arg.stomp_connection_instance # INVALID )
    => \E j \in 1..Len(acts) :
         acts[j] = DEVICE_STOMP_ScheduleReconnect(last.arg.stomp_connection_instance)

\* C6 as amended: a population that fails schedules no reconnect, whatever it had
\* resolved before the failing step.
C6_NoReconnectAfterFailedPopulation ==
    (Populated(last.op) /\ last.err # USP_ERR_OK) => Reconnects(acts) = {}

C6_Witness ==
    /\ Populated(last.op) /\ last.err # USP_ERR_OK
    /\ last.arg.enable
    /\ last.arg.protocol = kMtpProtocol_STOMP
    /\ last.arg.stomp_connection_instance \in Connections
    /\ acts = <<>>

\* C7: when connection c is deleted, every enabled STOMP MTP that referred to c has its
\* reference unset, and the calls made are one reconnect of c for each of them and
\* nothing else.
C7_CascadeReconnectsEachMtp ==
    [][ last'.op = "DEVICE_MTP_NotifyStompConnDeleted"
        => LET c == last'.arg
               K == {s \in NonFree(agent_mtps) :
                       /\ agent_mtps[s].enable
                       /\ agent_mtps[s].protocol = kMtpProtocol_STOMP
                       /\ agent_mtps[s].stomp_connection_instance = c}
           IN  /\ \A s \in K : agent_mtps'[s].stomp_connection_instance = INVALID
               /\ acts' = [j \in 1..Cardinality(K) |-> DEVICE_STOMP_ScheduleReconnect(c)] ]_vars

C7_Witness ==
    /\ last.op = "DEVICE_MTP_NotifyStompConnDeleted"
    /\ Len(acts) >= 2
    /\ Cardinality({s \in NonFree(agent_mtps) :
                      /\ agent_mtps[s].enable
                      /\ agent_mtps[s].protocol = kMtpProtocol_STOMP
                      /\ agent_mtps[s].stomp_connection_instance = INVALID}) >= 2

\* C8: after DEVICE_MTP_NotifyStompConnDeleted(c) has returned, no MTP refers to c,
\* whatever its protocol and whether it is enabled or not.
C8_CascadeClearsEveryReference ==
    last.op = "DEVICE_MTP_NotifyStompConnDeleted"
        => \A s \in NonFree(agent_mtps) : agent_mtps[s].stomp_connection_instance # last.arg

\* C9: setting Enable to the value the MTP already has returns USP_ERR_OK, leaves the
\* array as it was and calls no transport.
C9_EnableUnchangedIsNoOp ==
    [][ ( /\ last'.op = "NotifyChange_AgentMtpEnable"
          /\ last'.arg = agent_mtps[FindAgentMtpByInstance(agent_mtps, last'.inst)].enable )
        => /\ last'.err = USP_ERR_OK
           /\ agent_mtps' = agent_mtps
           /\ acts' = <<>> ]_vars

C9_Witness ==
    /\ last.op = "NotifyChange_AgentMtpEnable"
    /\ last.arg = TRUE
    /\ LET mtp == agent_mtps[FindAgentMtpByInstance(agent_mtps, last.inst)]
       IN  /\ mtp.enable
           /\ mtp.protocol = kMtpProtocol_STOMP
           /\ mtp.stomp_connection_instance \in Connections
    /\ acts = <<>>

\* The MTP of the scenario of C10: instance 1, connection 1, queue "agent/1", the
\* default port and path
ScenarioMtp(enable, protocol) ==
    [instance |-> 1, enable |-> enable, protocol |-> protocol,
     stomp_connection_instance |-> 1, stomp_agent_queue |-> "agent/1",
     coap_port |-> 5683, coap_path |-> ""]
ScenarioTable(enable, protocol) ==
    [DEVICE_MTP_Init EXCEPT ![0] = ScenarioMtp(enable, protocol)]

\* C10: on an empty array, adding instance 1 disabled with Protocol=STOMP, connection 1,
\* queue "agent/1", port 5683 and an empty path calls no transport; enabling it then
\* schedules one reconnect of connection 1 and nothing else; setting Protocol=CoAP then
\* schedules one reconnect of connection 1 and starts the server of instance 1 at port
\* 5683 with the empty path, and stops no server.
C10_Scenario ==
    [][ /\ ( /\ agent_mtps = DEVICE_MTP_Init
             /\ last'.op = "Notify_AgentMtpAdded" /\ last'.err = USP_ERR_OK
             /\ agent_mtps'[0] = ScenarioMtp(FALSE, kMtpProtocol_STOMP) )
           => /\ agent_mtps' = ScenarioTable(FALSE, kMtpProtocol_STOMP)
              /\ acts' = <<>>
        /\ ( /\ agent_mtps = ScenarioTable(FALSE, kMtpProtocol_STOMP)
             /\ last'.op = "NotifyChange_AgentMtpEnable" /\ last'.inst = 1
             /\ last'.arg = TRUE )
           => /\ agent_mtps' = ScenarioTable(TRUE, kMtpProtocol_STOMP)
              /\ last'.err = USP_ERR_OK
              /\ acts' = <<DEVICE_STOMP_ScheduleReconnect(1)>>
        /\ ( /\ agent_mtps = ScenarioTable(TRUE, kMtpProtocol_STOMP)
             /\ last'.op = "NotifyChange_AgentMtpProtocol" /\ last'.inst = 1
             /\ last'.arg = "CoAP" )
           => /\ agent_mtps' = ScenarioTable(TRUE, kMtpProtocol_CoAP)
              /\ acts' = <<DEVICE_STOMP_ScheduleReconnect(1), COAP_StartServer(1, 5683, "")>> ]_vars

C10_Witness ==
    /\ agent_mtps = ScenarioTable(TRUE, kMtpProtocol_CoAP)
    /\ last.op = "NotifyChange_AgentMtpProtocol" /\ last.inst = 1 /\ last.arg = "CoAP"
    /\ acts = <<DEVICE_STOMP_ScheduleReconnect(1), COAP_StartServer(1, 5683, "")>>

\* C11: the Status of an MTP is Down when it is not enabled, whatever its protocol and
\* whatever the transports report; when enabled it is what the STOMP module reports for
\* its connection (protocol STOMP), what the CoAP module reports for its instance
\* (protocol CoAP), and Error otherwise. Reading it changes no slot and calls no transport.
C11_AggregateStatus ==
    [][ last'.op = "Get_MtpStatus"
        => LET mtp == agent_mtps[FindAgentMtpByInstance(agent_mtps, last'.inst)]
               expected == IF ~mtp.enable THEN "Down"
                           ELSE IF mtp.protocol = kMtpProtocol_STOMP
                           THEN TEXT_UTILS_EnumToString(
                                    last'.arg.stomp_status[mtp.stomp_connection_instance],
                                    mtp_statuses)
                           ELSE IF mtp.protocol = kMtpProtocol_CoAP
                           THEN TEXT_UTILS_EnumToString(
                                    last'.arg.coap_status[mtp.instance], mtp_statuses)
                           ELSE "Error"
           IN  /\ last'.arg.buf = expected
               /\ last'.err = USP_ERR_OK
               /\ agent_mtps' = agent_mtps
               /\ acts' = <<>> ]_vars

C11_Witness ==
    /\ last.op = "Get_MtpStatus"
    /\ LET mtp == agent_mtps[FindAgentMtpByInstance(agent_mtps, last.inst)]
       IN  /\ ~mtp.enable
           /\ mtp.protocol = kMtpProtocol_STOMP
           /\ mtp.stomp_connection_instance \in Connections
           /\ last.arg.stomp_status[mtp.stomp_connection_instance] = kMtpStatus_Up
    /\ last.arg.buf = "Down"

\* C12: DEVICE_MTP_GetAgentStompQueue(c) returns the queue of the slot of lowest index
\* that is in use, enabled, of protocol STOMP, refers to c and has a non-empty queue,
\* whatever the instance numbers are, and NULL when there is no such slot; it changes
\* no slot and calls no transport.
C12_AgentStompQueueFirstSlot ==
    [][ last'.op = "DEVICE_MTP_GetAgentStompQueue"
        => LET c == last'.arg.instance
               found == {s \in NonFree(agent_mtps) :
                           /\ agent_mtps[s].enable
                           /\ agent_mtps[s].protocol = kMtpProtocol_STOMP
                           /\ agent_mtps[s].stomp_connection_instance = c
                           /\ agent_mtps[s].stomp_agent_queue \notin {"", NULL}}
           IN  /\ found = {} => last'.arg.queue = NULL
               /\ \A s \in found :
                    (\A t \in found : s <= t)
                        => last'.arg.queue = agent_mtps[s].stomp_agent_queue
               /\ agent_mtps' = agent_mtps
               /\ acts' = <<>> ]_vars

C12_Witness ==
    /\ last.op = "DEVICE_MTP_GetAgentStompQueue"
    /\ \E s, t \in NonFree(agent_mtps) :
         /\ s < t
         /\ agent_mtps[s].instance > agent_mtps[t].instance
         /\ ListensOn(agent_mtps[s], last.arg.instance)
         /\ ListensOn(agent_mtps[t], last.arg.instance)
         /\ agent_mtps[s].stomp_agent_queue # agent_mtps[t].stomp_agent_queue
         /\ last.arg.queue = agent_mtps[s].stomp_agent_queue
         /\ \A u \in Slots : u < s => ~ListensOn(agent_mtps[u], last.arg.instance)

\* The instance numbers the slots in use carry
InstancesOf(mtps) == {mtps[s].instance : s \in NonFree(mtps)}

\* C13 as claimed: DEVICE_MTP_Start returns an error only in an iteration whose population
\* failed and whose instance could not be deleted from the database.
C13_StartFailsOnlyOnFailedDelete ==
    [][ (phase = "start" /\ phase' = "aborted")
        => /\ last'.op = "ProcessAgentMtpAdded"
           /\ last'.err # USP_ERR_OK ]_vars

\* C13 as amended: in DEVICE_MTP_Start an instance whose population fails is left in no
\* slot and is deleted from the database, and the loop goes on to the next instance; an
\* instance whose population succeeds stays in the database and has a slot. The start
\* returns an error only when that deletion fails, the loop then stopping with the
\* instance still in the database, or when the instances could not be listed at all,
\* no slot then being populated. It returns USP_ERR_OK otherwise, with exactly the
\* instances left in the database in slots, and none when the database held none.
C13_StartSelfHeals ==
    [][ phase = "start"
        => /\ (last'.op = "ProcessAgentMtpAdded" /\ last'.err = USP_ERR_OK)
                => /\ last'.inst = Head(iv) /\ iv' = Tail(iv)
                   /\ db' = db /\ phase' = "start"
                   /\ last'.inst \in InstancesOf(agent_mtps')
           /\ (last'.op = "ProcessAgentMtpAdded" /\ last'.err # USP_ERR_OK)
                => /\ last'.inst = Head(iv)
                   /\ last'.inst \notin InstancesOf(agent_mtps')
                   /\ \/ db' = db \ {last'.inst} /\ iv' = Tail(iv) /\ phase' = "start"
                      \/ db' = db /\ phase' = "aborted"
           /\ phase' = "aborted"
                => \/ /\ last'.op = "ProcessAgentMtpAdded"
                      /\ last'.err # USP_ERR_OK
                      /\ last'.inst \in db'
                   \/ /\ last'.op = "DEVICE_MTP_Start"
                      /\ last'.err # USP_ERR_OK
                      /\ last.op = "DEVICE_MTP_Init"
                      /\ agent_mtps' = DEVICE_MTP_Init
           /\ phase' = "running"
                => /\ last'.op = "DEVICE_MTP_Start" /\ last'.err = USP_ERR_OK
                   /\ iv = <<>>
                   /\ InstancesOf(agent_mtps') = db'
                   /\ last.op = "DEVICE_MTP_Init" => agent_mtps' = DEVICE_MTP_Init ]_vars

C13_Witness ==
    /\ phase = "running"
    /\ last.op = "DEVICE_MTP_Start" /\ last.err = USP_ERR_OK
    /\ next_instance >= 3
    /\ 1 \in db /\ 2 \notin db /\ 3 \in db
    /\ InstancesOf(agent_mtps) = db

\* A handler's result is the error of COAP_StartServer and the array with the new value
FailsWith(r, start, mtps) == r.err = start /\ r.mtps = mtps

\* C14: when COAP_StartServer fails in a change of Enable to true, of Protocol to CoAP,
\* or of CoAP.Port or CoAP.Path of an enabled CoAP MTP, the handler returns the error of
\* COAP_StartServer and the slot holds the new value of the parameter; no other field
\* of the slot and no other slot has changed.
C14_StartFailureKeepsValue ==
    \A s \in NonFree(agent_mtps), start \in StartResults \ {USP_ERR_OK} :
        LET old == agent_mtps[s]
            inst1 == old.instance
        IN  /\ (~old.enable /\ old.protocol = kMtpProtocol_CoAP)
                 => FailsWith(NotifyChange_AgentMtpEnable(agent_mtps, inst1, TRUE, start),
                              start, [agent_mtps EXCEPT ![s].enable = TRUE])
            /\ (old.enable /\ old.protocol # kMtpProtocol_CoAP)
                 => FailsWith(NotifyChange_AgentMtpProtocol(agent_mtps, inst1, "CoAP", start),
                              start, [agent_mtps EXCEPT ![s].protocol = kMtpProtocol_CoAP])
            /\ (old.enable /\ old.protocol = kMtpProtocol_CoAP)
                 => /\ \A val_uint \in Ports \ {old.coap_port} :
                         FailsWith(NotifyChange_AgentMtpCoAPPort(agent_mtps, inst1, val_uint,
                                                                 start),
                                   start, [agent_mtps EXCEPT ![s].coap_port = val_uint])
                    /\ \A value \in Paths :
                         FailsWith(NotifyChange_AgentMtpCoAPPath(agent_mtps, inst1, value,
                                                                 start),
                                   start, [agent_mtps EXCEPT ![s].coap_path = value])

C14_Witness ==
    /\ last.op = "NotifyChange_AgentMtpCoAPPort"
    /\ last.err = USP_ERR_INTERNAL_ERROR
    /\ LET mtp == agent_mtps[FindAgentMtpByInstance(agent_mtps, last.inst)]
       IN  /\ mtp.enable
           /\ mtp.protocol = kMtpProtocol_CoAP
           /\ mtp.coap_port = last.arg
           /\ mtp.coap_port # DefaultValues.port.val
           /\ acts = <<COAP_StopServer(last.inst),
                       COAP_StartServer(last.inst, last.arg, mtp.coap_path)>>

\* C15: a change of STOMP.Reference whose value cannot be read, or is not empty and
\* names no row of Device.STOMP.Connection, sets the connection of the MTP to INVALID
\* whatever it was, returns the error, and changes nothing else; an empty value is no
\* error and sets the connection to INVALID too.
C15_UnresolvedReferenceIsUnset ==
    [][ last'.op = "NotifyChange_AgentMtpStompReference"
        => LET s == FindAgentMtpByInstance(agent_mtps, last'.inst)
               read == last'.arg
               unset == [agent_mtps EXCEPT ![s].stomp_connection_instance = INVALID]
           IN  /\ read.err # USP_ERR_OK
                    => last'.err = read.err /\ agent_mtps' = unset /\ acts' = <<>>
               /\ (read.err = USP_ERR_OK /\ read.val # EmptyRef /\ read.val[2] \notin Connections)
                    => last'.err # USP_ERR_OK /\ agent_mtps' = unset /\ acts' = <<>>
               /\ (read.err = USP_ERR_OK /\ read.val = EmptyRef)
                    => last'.err = USP_ERR_OK /\ agent_mtps' = unset ]_vars

C15_Witness ==
    /\ last.op = "NotifyChange_AgentMtpStompReference"
    /\ last.arg = Read(USP_ERR_OK, RefTo(MaxConn + 1))
    /\ last.err = USP_ERR_INVALID_VALUE
    /\ LET mtp == agent_mtps[FindAgentMtpByInstance(agent_mtps, last.inst)]
       IN  /\ mtp.enable
           /\ mtp.protocol = kMtpProtocol_STOMP
           /\ mtp.stomp_connection_instance = INVALID
           /\ mtp.stomp_agent_queue = "agent/1"
    /\ acts = <<>>

\* C16: in every reachable state no two slots in use carry the same instance number, so
\* that FindAgentMtpByInstance finds the one slot populated for an instance.
C16_InstanceUnique ==
    \A s, t \in NonFree(agent_mtps) :
        agent_mtps[s].instance = agent_mtps[t].instance => s = t

\* C17: no slot in use is enabled with protocol kMtpProtocol_None, in any state reached by
\* populations and by changes of Enable and of Protocol to values that passed
\* Validate_AgentMtpProtocol.
C17_NoEnabledNone ==
    \A s \in NonFree(agent_mtps) :
        ~(agent_mtps[s].enable /\ agent_mtps[s].protocol = kMtpProtocol_None)

C19_DeleteTurnsProtocolOff ==
    [][ last'.op = "Notify_AgentMtpDeleted"
        => /\ last'.err = USP_ERR_OK
           /\ FindAgentMtpByInstance(agent_mtps, last'.inst) # NoSlot
                => LET s == FindAgentMtpByInstance(agent_mtps, last'.inst)
                       old == agent_mtps[s]
                   IN  /\ ~old.enable => acts' = <<>>
                       /\ old.enable => agent_mtps'[s].instance = INVALID
                       /\ ( /\ old.enable /\ old.protocol = kMtpProtocol_STOMP
                            /\ old.stomp_connection_instance # INVALID )
                            => acts' = <<DEVICE_STOMP_ScheduleReconnect(
                                             old.stomp_connection_instance)>>
                       /\ ( /\ old.enable /\ old.protocol = kMtpProtocol_STOMP
                            /\ old.stomp_connection_instance = INVALID )
                            => acts' = <<>>
                       /\ (old.enable /\ old.protocol = kMtpProtocol_CoAP)
                            => acts' = <<COAP_StopServer(old.instance)>>
                       /\ (old.enable /\ old.protocol = kMtpProtocol_None)
                            => acts' = <<>> ]_vars

C19_Witness ==
    /\ last.op = "Notify_AgentMtpDeleted"
    /\ last.err = USP_ERR_OK
    /\ acts = <<COAP_StopServer(last.inst)>>
    /\ FindAgentMtpByInstance(agent_mtps, last.inst) = NoSlot

\* C20: a population that succeeds has read every parameter, whatever the protocol. If
\* the MTP is enabled with protocol CoAP its server is started once, with the port and
\* path read, and no reconnect is scheduled; if it is enabled with protocol STOMP and
\* a connection, one reconnect of that connection is scheduled and no server started;
\* otherwise no transport is called.
C20_PopulationTransportCalls ==
    [][ (Populated(last'.op) /\ last'.err = USP_ERR_OK)
        => LET s == FindAgentMtpByInstance(agent_mtps', last'.inst)
               mtp == agent_mtps'[s]
           IN  /\ s # NoSlot
               /\ agent_mtps[s].instance = INVALID
               /\ mtp.stomp_agent_queue # NULL
               /\ mtp.coap_port \in Ports
               /\ mtp.coap_path # NULL
               /\ acts' = IF mtp.enable /\ mtp.protocol = kMtpProtocol_CoAP
                          THEN <<COAP_StartServer(mtp.instance, mtp.coap_port,
                                                  mtp.coap_path)>>
                          ELSE IF /\ mtp.enable
                                  /\ mtp.protocol = kMtpProtocol_STOMP
                                  /\ mtp.stomp_connection_instance # INVALID
                          THEN <<DEVICE_STOMP_ScheduleReconnect(
                                     mtp.stomp_connection_instance)>>
                          ELSE <<>> ]_vars

C20_Witness ==
    /\ last.op = "Notify_AgentMtpAdded"
    /\ last.err = USP_ERR_OK
    /\ LET mtp == agent_mtps[FindAgentMtpByInstance(agent_mtps, last.inst)]
       IN  /\ mtp.enable
           /\ mtp.protocol = kMtpProtocol_CoAP
           /\ mtp.stomp_connection_instance \in Connections
           /\ mtp.stomp_agent_queue = "agent/1"
           /\ acts = <<COAP_StartServer(last.inst, 5684, "usp")>>

\* The slots other than s are the same in both tables
SameButSlot(mtps, new_mtps, s) == \A t \in Slots \ {s} : new_mtps[t] = mtps[t]

\* C21: a change of Enable to a different value stores it and changes no other field
\* of any slot. A STOMP MTP schedules one reconnect of its connection if it has one and
\* nothing otherwise, whether it is enabled or disabled by the change; a CoAP MTP starts
\* its server on the stored port and path when enabled and stops it when disabled; an
\* MTP of no protocol calls nothing.
C21_EnableChangeDispatch ==
    [][ ( /\ last'.op = "NotifyChange_AgentMtpEnable"
          /\ agent_mtps[FindAgentMtpByInstance(agent_mtps, last'.inst)].enable # last'.arg )
        => LET s == FindAgentMtpByInstance(agent_mtps, last'.inst)
               old == agent_mtps[s]
           IN  /\ agent_mtps'[s] = [old EXCEPT !.enable = last'.arg]
               /\ SameButSlot(agent_mtps, agent_mtps', s)
               /\ ( /\ old.protocol = kMtpProtocol_STOMP
                    /\ old.stomp_connection_instance # INVALID )
                    => /\ acts' = <<DEVICE_STOMP_ScheduleReconnect(
                                        old.stomp_connection_instance)>>
                       /\ last'.err = USP_ERR_OK
               /\ ( /\ old.protocol = kMtpProtocol_STOMP
                    /\ old.stomp_connection_instance = INVALID )
                    => acts' = <<>> /\ last'.err = USP_ERR_OK
               /\ (old.protocol = kMtpProtocol_CoAP /\ last'.arg = TRUE)
                    => acts' = <<COAP_StartServer(old.instance, old.coap_port,
                                                  old.coap_path)>>
               /\ (old.protocol = kMtpProtocol_CoAP /\ last'.arg = FALSE)
                    => acts' = <<COAP_StopServer(old.instance)>> /\ last'.err = USP_ERR_OK
               /\ old.protocol = kMtpProtocol_None
                    => acts' = <<>> /\ last'.err = USP_ERR_OK ]_vars

C21_Witness ==
    /\ last.op = "NotifyChange_AgentMtpEnable"
    /\ last.arg = FALSE
    /\ LET mtp == agent_mtps[FindAgentMtpByInstance(agent_mtps, last.inst)]
       IN  /\ ~mtp.enable
           /\ mtp.protocol = kMtpProtocol_STOMP
           /\ mtp.coap_port = 5684
           /\ acts = <<DEVICE_STOMP_ScheduleReconnect(mtp.stomp_connection_instance)>>

\* C22: a change of Protocol always stores the new protocol and no other field of any
\* slot. If the MTP is disabled, or enabled and the protocol is the one it had, the
\* handler returns USP_ERR_OK and calls no transport.
C22_ProtocolChangeWithoutEffect ==
    [][ last'.op = "NotifyChange_AgentMtpProtocol"
        => LET s == FindAgentMtpByInstance(agent_mtps, last'.inst)
               old == agent_mtps[s]
               protocol == TEXT_UTILS_StringToEnum(last'.arg, mtp_protocols)
           IN  /\ agent_mtps'[s] = [old EXCEPT !.protocol = protocol]
               /\ SameButSlot(agent_mtps, agent_mtps', s)
               /\ (~old.enable \/ protocol = old.protocol)
                    => acts' = <<>> /\ last'.err = USP_ERR_OK ]_vars

C22_Witness ==
    /\ last.op = "NotifyChange_AgentMtpProtocol"
    /\ last.arg = "CoAP"
    /\ last.err = USP_ERR_OK
    /\ acts = <<>>
    /\ LET mtp == agent_mtps[FindAgentMtpByInstance(agent_mtps, last.inst)]
       IN  /\ ~mtp.enable
           /\ mtp.protocol = kMtpProtocol_CoAP
           /\ mtp.stomp_connection_instance \in Connections

\* C23: a change of Protocol of an enabled MTP to another protocol schedules one
\* reconnect of the MTP's connection if it has one, whatever the two protocols are, and
\* none otherwise; then stops the server of the instance if the protocol was CoAP; then
\* starts it on the stored port and path if the protocol is now CoAP, and returns what
\* COAP_StartServer returned. Without a start it returns USP_ERR_OK.
C23_ProtocolSwitch ==
    \A inst1 \in db, value \in {"", "STOMP", "CoAP"}, start \in StartResults :
        LET s == FindAgentMtpByInstance(agent_mtps, inst1)
            old == agent_mtps[s]
            protocol == TEXT_UTILS_StringToEnum(value, mtp_protocols)
            r == NotifyChange_AgentMtpProtocol(agent_mtps, inst1, value, start)
        IN  (s # NoSlot /\ old.enable /\ protocol # old.protocol)
            => /\ r.acts = (IF old.stomp_connection_instance # INVALID
                            THEN <<DEVICE_STOMP_ScheduleReconnect(
                                       old.stomp_connection_instance)>>
                            ELSE <<>>)
                           \o (IF old.protocol = kMtpProtocol_CoAP
                               THEN <<COAP_StopServer(old.instance)>> ELSE <<>>)
                           \o (IF protocol = kMtpProtocol_CoAP
                               THEN <<COAP_StartServer(old.instance, old.coap_port,
                                                       old.coap_path)>>
                               ELSE <<>>)
               /\ r.err = IF protocol = kMtpProtocol_CoAP THEN start ELSE USP_ERR_OK

C23_Witness ==
    /\ last.op = "NotifyChange_AgentMtpProtocol"
    /\ last.arg = "CoAP"
    /\ last.err = USP_ERR_INTERNAL_ERROR
    /\ \E c \in Connections :
         acts = <<DEVICE_STOMP_ScheduleReconnect(c),
                  COAP_StartServer(last.inst, 5684, "usp")>>

\* C24: a change of STOMP.Reference that resolves stores the new connection and no other
\* field of any slot, and returns USP_ERR_OK. If the MTP is enabled, its protocol is
\* STOMP and the connection differs from the one it had, a reconnect of the previous
\* connection is scheduled if there was one, then a reconnect of the new connection if
\* there is one; otherwise no reconnect is scheduled.
C24_ReferenceChangeReconnects ==
    [][ ( /\ last'.op = "NotifyChange_AgentMtpStompReference"
          /\ DEVICE_MTP_GetStompReference(last'.arg).err = USP_ERR_OK )
        => LET s == FindAgentMtpByInstance(agent_mtps, last'.inst)
               old == agent_mtps[s]
               previous == old.stomp_connection_instance
               new == DEVICE_MTP_GetStompReference(last'.arg).instance
           IN  /\ agent_mtps'[s] = [old EXCEPT !.stomp_connection_instance = new]
               /\ SameButSlot(agent_mtps, agent_mtps', s)
               /\ last'.err = USP_ERR_OK
               /\ acts' = IF /\ old.enable
                             /\ old.protocol = kMtpProtocol_STOMP
                             /\ previous # new
                          THEN (IF previous # INVALID
                                THEN <<DEVICE_STOMP_ScheduleReconnect(previous)>>
                                ELSE <<>>)
                               \o (IF new # INVALID
                                   THEN <<DEVICE_STOMP_ScheduleReconnect(new)>>
                                   ELSE <<>>)
                          ELSE <<>> ]_vars

C24_Witness ==
    /\ last.op = "NotifyChange_AgentMtpStompReference"
    /\ last.err = USP_ERR_OK
    /\ last.arg = Read(USP_ERR_OK, RefTo(2))
    /\ acts = <<DEVICE_STOMP_ScheduleReconnect(1), DEVICE_STOMP_ScheduleReconnect(2)>>
    /\ agent_mtps[FindAgentMtpByInstance(agent_mtps, last.inst)].stomp_connection_instance = 2

\* C25 as stated: whenever a change of STOMP.Destination schedules a reconnect, the queue
\* of the connection resolves to the new destination
C25_ReconnectResolvesNewDestination ==
    [][ (last'.op = "NotifyChange_AgentMtpStompDestination" /\ acts' # <<>>)
        => LET old == agent_mtps[FindAgentMtpByInstance(agent_mtps, last'.inst)]
           IN  DEVICE_MTP_GetAgentStompQueue(agent_mtps',
                   old.stomp_connection_instance).buf = last'.arg ]_vars

\* C25: a change of STOMP.Destination stores the new value, changes no other field of
\* any slot and returns USP_ERR_OK. One reconnect of the MTP's connection is scheduled
\* if, before the store, the MTP was enabled, its protocol was STOMP, the value differed
\* from the stored one and it had a connection; none otherwise. The slot holds the new
\* value when the reconnect is scheduled: the queue of the connection then resolves to
\* it if it is not empty and no slot before this one listens on the connection.
C25_DestinationChange ==
    [][ last'.op = "NotifyChange_AgentMtpStompDestination"
        => LET s == FindAgentMtpByInstance(agent_mtps, last'.inst)
               old == agent_mtps[s]
               value == last'.arg
               instance == old.stomp_connection_instance
               scheduled == /\ old.enable
                            /\ old.protocol = kMtpProtocol_STOMP
                            /\ old.stomp_agent_queue # value
                            /\ instance # INVALID
           IN  /\ agent_mtps'[s] = [old EXCEPT !.stomp_agent_queue = value]
               /\ SameButSlot(agent_mtps, agent_mtps', s)
               /\ last'.err = USP_ERR_OK
               /\ acts' = IF scheduled THEN <<DEVICE_STOMP_ScheduleReconnect(instance)>>
                          ELSE <<>>
               /\ ( /\ scheduled
                    /\ value # ""
                    /\ \A t \in Slots : t < s => ~ListensOn(agent_mtps'[t], instance) )
                    => DEVICE_MTP_GetAgentStompQueue(agent_mtps', instance).buf = value
          ]_vars

C25_Witness ==
    /\ last.op = "NotifyChange_AgentMtpStompDestination"
    /\ last.arg = "agent/1"
    /\ last.err = USP_ERR_OK
    /\ acts = <<DEVICE_STOMP_ScheduleReconnect(1)>>
    /\ LET s == FindAgentMtpByInstance(agent_mtps, last.inst)
       IN  /\ s > 0
           /\ agent_mtps[s].stomp_agent_queue = "agent/1"
           /\ DEVICE_MTP_GetAgentStompQueue(agent_mtps, 1).buf = "agent/1"

\* C26: a change of CoAP.Port to the stored port changes nothing and calls nothing.
\* Another port is stored, no other field of any slot changing; if the MTP is enabled
\* and its protocol is CoAP the server of the instance is stopped and then started on
\* the new port and the stored path; otherwise no transport is called.
C26_PortChange ==
    [][ last'.op = "NotifyChange_AgentMtpCoAPPort"
        => LET s == FindAgentMtpByInstance(agent_mtps, last'.inst)
               old == agent_mtps[s]
               val_uint == last'.arg
           IN  /\ val_uint = old.coap_port
                    => /\ agent_mtps' = agent_mtps
                       /\ acts' = <<>>
                       /\ last'.err = USP_ERR_OK
               /\ val_uint # old.coap_port
                    => /\ agent_mtps'[s] = [old EXCEPT !.coap_port = val_uint]
                       /\ SameButSlot(agent_mtps, agent_mtps', s)
                       /\ (old.enable /\ old.protocol = kMtpProtocol_CoAP)
                            => acts' = <<COAP_StopServer(old.instance),
                                         COAP_StartServer(old.instance, val_uint,
                                                          old.coap_path)>>
                       /\ ~(old.enable /\ old.protocol = kMtpProtocol_CoAP)
                            => acts' = <<>> /\ last'.err = USP_ERR_OK ]_vars

C26_Witness ==
    /\ last.op = "NotifyChange_AgentMtpCoAPPort"
    /\ last.arg = 5684
    /\ last.err = USP_ERR_OK
    /\ acts = <<COAP_StopServer(last.inst), COAP_StartServer(last.inst, 5684, "usp")>>
    /\ agent_mtps[FindAgentMtpByInstance(agent_mtps, last.inst)].coap_port = 5684

\* C27: a change of CoAP.Path to the stored path changes nothing and neither stops nor
\* starts the server
C27_PathUnchangedIsNoOp ==
    [][ ( /\ last'.op = "NotifyChange_AgentMtpCoAPPath"
          /\ agent_mtps[FindAgentMtpByInstance(agent_mtps, last'.inst)].coap_path
               = last'.arg )
        => agent_mtps' = agent_mtps /\ acts' = <<>> ]_vars

C29_ReadersNeedNoLock ==
    /\ \A s \in NonFree(agent_mtps) :
         ~( /\ agent_mtps[s].enable
            /\ agent_mtps[s].protocol = kMtpProtocol_STOMP
            /\ agent_mtps[s].stomp_connection_instance \in Connections
            /\ agent_mtps[s].stomp_agent_queue = NULL )
    /\ last.op = "DEVICE_MTP_GetAgentStompQueue" => last.err = USP_ERR_OK

\* C30: once the agent runs, the instance numbers carried by the slots in use are the
\* instances present in the database, after any adds, parameter changes and deletes.
C30_TableTracksDatabase ==
    phase = "running" => InstancesOf(agent_mtps) = db

\* The instances whose CoAP server runs after the calls, given those it ran for before
RECURSIVE ServersAfter(_, _)
ServersAfter(running, calls) ==
    IF calls = <<>> THEN running
    ELSE IF Head(calls)[1] = "COAP_StartServer"
    THEN ServersAfter(running \cup {Head(calls)[2]}, Tail(calls))
    ELSE IF Head(calls)[1] = "COAP_StopServer"
    THEN ServersAfter(running \ {Head(calls)[2]}, Tail(calls))
    ELSE ServersAfter(running, Tail(calls))

\* Whether the calls start the server of an instance it already runs for
RECURSIVE StartsTwice(_, _)
StartsTwice(running, calls) ==
    IF calls = <<>> THEN FALSE
    ELSE \/ Head(calls)[1] = "COAP_StartServer" /\ Head(calls)[2] \in running
         \/ StartsTwice(ServersAfter(running, <<Head(calls)>>), Tail(calls))

\* The instances of the slots in use that are enabled CoAP MTPs
ServedInstances(mtps) ==
    {mtps[s].instance : s \in {t \in NonFree(mtps) : /\ mtps[t].enable
                                                      /\ mtps[t].protocol = kMtpProtocol_CoAP}}

\* C31: with COAP_StartServer never failing, the CoAP server runs between handler
\* calls for exactly the instances of the slots in use that are enabled CoAP MTPs.
\* No server runs at the start; so it is enough that every handler, called when the
\* servers are those of the enabled CoAP slots, leaves them so, and starts no server
\* that already runs.
C31_ServerFollowsSlot ==
    [][ /\ ~StartsTwice(ServedInstances(agent_mtps), acts')
        /\ ServersAfter(ServedInstances(agent_mtps), acts') = ServedInstances(agent_mtps')
      ]_vars

\* C32 as stated: at the start, an instance met when every slot is in use fails with
\* USP_ERR_RESOURCES_EXCEEDED, is deleted from the database, and the start goes on
C32_OverflowIsDeleted ==
    [][ ( /\ phase = "start"
          /\ last'.op = "ProcessAgentMtpAdded"
          /\ NonFree(agent_mtps) = Slots )
        => /\ last'.err = USP_ERR_RESOURCES_EXCEEDED
           /\ last'.inst \notin db'
           /\ phase' = "start" ]_vars

\* C32: at the start the instances take the slots in the order of the list, each one
\* that populates filling the first free slot. An instance met when every slot is in
\* use fails with USP_ERR_RESOURCES_EXCEEDED, changes no slot and calls no transport;
\* it is deleted from the database and the start goes on, unless that deletion fails,
\* which stops the start with the instance still in the database. A start that
\* returns USP_ERR_OK leaves in slots exactly the instances left in the database.
C32_StartBeyondCapacity ==
    [][ phase = "start"
        => /\ (last'.op = "ProcessAgentMtpAdded" /\ last'.err = USP_ERR_OK)
                => LET s == FindUnusedAgentMtp(agent_mtps)
                   IN  /\ s # NoSlot
                       /\ agent_mtps'[s].instance = Head(iv)
                       /\ SameButSlot(agent_mtps, agent_mtps', s)
           /\ (last'.op = "ProcessAgentMtpAdded" /\ NonFree(agent_mtps) = Slots)
                => /\ last'.err = USP_ERR_RESOURCES_EXCEEDED
                   /\ last'.inst = Head(iv)
                   /\ agent_mtps' = agent_mtps
                   /\ acts' = <<>>
                   /\ \/ /\ phase' = "start"
                         /\ db' = db \ {last'.inst}
                         /\ iv' = Tail(iv)
                      \/ /\ phase' = "aborted"
                         /\ db' = db
           /\ phase' = "running"
                => /\ last'.err = USP_ERR_OK
                   /\ InstancesOf(agent_mtps') = db' ]_vars

C32_Witness ==
    /\ phase = "running"
    /\ last.op = "DEVICE_MTP_Start" /\ last.err = USP_ERR_OK
    /\ next_instance > MAX_AGENT_MTPS
    /\ db = 1..MAX_AGENT_MTPS
    /\ \A s \in Slots : agent_mtps[s].instance = s + 1

\* C33: a change of STOMP.Reference whose new value does not resolve returns the error
\* and schedules no reconnect, of the previous connection or of any other, whatever
\* the MTP was; its slot then answers for no connection, so DEVICE_MTP_GetAgentStompQueue
\* finds for every connection what it would find without this slot.
C33_FailedReferenceSchedulesNothing ==
    [][ ( /\ last'.op = "NotifyChange_AgentMtpStompReference"
          /\ DEVICE_MTP_GetStompReference(last'.arg).err # USP_ERR_OK )
        => LET s == FindAgentMtpByInstance(agent_mtps, last'.inst)
               without == [agent_mtps EXCEPT ![s].enable = FALSE]
           IN  /\ last'.err = DEVICE_MTP_GetStompReference(last'.arg).err
               /\ acts' = <<>>
               /\ SameButSlot(agent_mtps, agent_mtps', s)
               /\ \A c \in Connections :
                    /\ ~ListensOn(agent_mtps'[s], c)
                    /\ DEVICE_MTP_GetAgentStompQueue(agent_mtps', c).buf
                         = DEVICE_MTP_GetAgentStompQueue(without, c).buf ]_vars

C33_Witness ==
    /\ last.op = "NotifyChange_AgentMtpStompReference"
    /\ last.arg = Read(USP_ERR_INTERNAL_ERROR, EmptyRef)
    /\ last.err = USP_ERR_INTERNAL_ERROR
    /\ acts = <<>>
    /\ LET mtp == agent_mtps[FindAgentMtpByInstance(agent_mtps, last.inst)]
       IN  /\ mtp.enable
           /\ mtp.protocol = kMtpProtocol_STOMP
           /\ mtp.stomp_agent_queue = "agent/1"
    /\ \A c \in Connections : DEVICE_MTP_GetAgentStompQueue(agent_mtps, c).buf = NULL

====
